---------------------------- MODULE Spec2Model ----------------------------
(***************************************************************************)
(* A model of the text-to-structured-data extraction engine of            *)
(* src/data_extraction/extract_steel_data.py.                              *)
(*                                                                         *)
(* Text is a sequence of characters.  A printable ASCII character is the   *)
(* one-character string holding it; every other character is the string    *)
(* "uXXXX" of its code point (u2103 is the degree-Celsius sign, u5c0f       *)
(* u65f6 the Chinese word for hour, u000a the line feed).  A number is an  *)
(* exact rational [n |-> numerator, d |-> denominator > 0] in lowest       *)
(* terms.  A canonical unit is named by a string: the source's name, with  *)
(* the degree sign written deg and the micro sign written u (degC, um).    *)
(***************************************************************************)
EXTENDS Integers, Sequences, FiniteSets, TLC

VARIABLES
  pc,            \* position of the running operation
  unit_arg,      \* canonicalize_unit: the argument
  unit_ret,      \* canonicalize_unit: the value returned
  num_src,       \* how the numeric expression at hand was written
  num_arg,       \* the raw text handed to preprocess_text
  num_text,      \* preprocess_text's result, handed to parse_numeric_expression
  num_ret,       \* parse_numeric_expression: the value returned
  src,           \* how the text at hand was written
  schema,        \* the fields the extractor works through, in order
  sentences,     \* extract_schema_from_sentences: the sentences
  method_label,  \* extract_schema_from_sentences: the method label
  comp_text,     \* extract_composition: the text
  si,            \* index of the sentence at hand
  fi,            \* index of the field at hand in the schema
  ai,            \* index of the alias occurrence at hand
  alias_matches, \* the (alias, span) pairs of the field at hand
  numeric_spans, \* the numeric spans of the sentence at hand
  used_indices,  \* the numeric spans already claimed for the field
  seen_spans,    \* extract_composition: the value spans already taken
  value_match,   \* extract_composition: the value match at hand
  results,       \* the Measurements emitted, per field of the schema
  warnings       \* the warnings logged

callVars == <<unit_arg, unit_ret, num_src, num_arg, num_text, num_ret>>
inputVars == <<src, schema, sentences, method_label, comp_text>>
sentVars == <<si, numeric_spans, used_indices>>
compVars == <<seen_spans, value_match>>
loopVars == <<fi, ai, alias_matches>>
outVars == <<results, warnings>>

vars == <<pc, callVars, inputVars, sentVars, compVars, loopVars, outVars>>

\* Python's None, where a string or a unit name can stand
None == "None"

---------------------------------------------------------------------------
(* Characters and strings                                                  *)

\* the element of a one-element set.  Only({e(x) : x \in {v}}) is e(v) with
\* v worked out once, however often e uses it.
Only(S) == CHOOSE v \in S : TRUE

UpperLetters == <<"A","B","C","D","E","F","G","H","I","J","K","L","M",
                  "N","O","P","Q","R","S","T","U","V","W","X","Y","Z">>
LowerLetters == <<"a","b","c","d","e","f","g","h","i","j","k","l","m",
                  "n","o","p","q","r","s","t","u","v","w","x","y","z">>
Digits == <<"0","1","2","3","4","5","6","7","8","9">>

Range(f) == {f[i] : i \in DOMAIN f}

AsciiLetters ==
  {"A","B","C","D","E","F","G","H","I","J","K","L","M",
   "N","O","P","Q","R","S","T","U","V","W","X","Y","Z",
   "a","b","c","d","e","f","g","h","i","j","k","l","m",
   "n","o","p","q","r","s","t","u","v","w","x","y","z"}
DigitChars == {"0","1","2","3","4","5","6","7","8","9"}

IsAsciiLetter(c) == c \in AsciiLetters
IsDigit(c) == c \in DigitChars

\* str.isspace / the regex class \s: blank, tab, line feed, vertical tab,
\* form feed, carriage return, no-break space, narrow no-break space,
\* ideographic space
SpaceChars ==
  {" ", "u0009", "u000a", "u000b", "u000c", "u000d", "u00a0", "u202f", "u3000"}

IsSpace(c) == c \in SpaceChars

\* the lower-case form of a character: of the ASCII capitals and of the
\* Greek capital mu
LowerChar(c) ==
  IF \E i \in 1..26 : UpperLetters[i] = c
    THEN LowerLetters[CHOOSE i \in 1..26 : UpperLetters[i] = c]
    ELSE IF c = "u039c" THEN "u03bc"
    ELSE c

\* str.lower
Lower(text) == Only({[i \in DOMAIN s |-> LowerChar(s[i])] : s \in {text}})

DigitValue(c) == (CHOOSE i \in 1..10 : Digits[i] = c) - 1

\* text[from:to] of Python, 0-based and half-open, for 0 <= from
Slice(text, from, to) ==
  Only({IF a >= b \/ a >= Len(s) THEN <<>>
        ELSE SubSeq(s, a + 1, IF b > Len(s) THEN Len(s) ELSE b) :
          s \in {text}, a \in {from}, b \in {to}})

\* the character at 0-based offset i, "" outside the text
At(s, i) == IF i >= 0 /\ i < Len(s) THEN s[i + 1] ELSE ""

\* whether pat occurs in s at 0-based offset i
MatchAt(s, pat, i) ==
  /\ i >= 0
  /\ i + Len(pat) <= Len(s)
  /\ \A k \in 1..Len(pat) : s[i + k] = pat[k]

\* str.startswith
StartsWith(text, pattern) == Only({MatchAt(s, pat, 0) : s \in {text}, pat \in {pattern}})

\* whether pattern occurs somewhere in text (the operator in on strings)
Contains(text, pattern) ==
  Only({\E i \in 0..Len(s) : MatchAt(s, pat, i) : s \in {text}, pat \in {pattern}})

RECURSIVE FlattenRange(_, _, _)
FlattenRange(ss, lo, hi) ==
  IF lo > hi THEN <<>>
  ELSE IF lo = hi THEN ss[lo]
  ELSE Only({FlattenRange(ss, lo, mid) \o FlattenRange(ss, mid + 1, hi) :
               mid \in {(lo + hi) \div 2}})

\* the concatenation of a sequence of strings
Flatten(strings) == Only({FlattenRange(ss, 1, Len(ss)) : ss \in {strings}})

\* the elements of a finite set of integers in increasing order
SortedSeq(set) ==
  Only({[k \in 1..Cardinality(S) |-> CHOOSE x \in S : Cardinality({y \in S : y <= x}) = k] :
          S \in {set}})

Min(set) == Only({CHOOSE x \in S : \A y \in S : x <= y : S \in {set}})
Max(set) == Only({CHOOSE x \in S : \A y \in S : y <= x : S \in {set}})

(***************************************************************************)
(* Regular-expression scanning.  A pattern is described by ml, where       *)
(* ml[i + 1] is the length of the pattern's match that starts at offset i  *)
(* (0 when it does not match there; no pattern of the program matches the   *)
(* empty string).  re.sub and re.finditer scan from the left and take the   *)
(* match at the first offset where there is one, then go on from its end.   *)
(***************************************************************************)
RECURSIVE Taken(_, _)
\* whether the scan takes the match that starts at offset i
Taken(ml, i) ==
  /\ ml[i + 1] > 0
  /\ \A j \in 0..(i - 1) : ~(ml[j + 1] > i - j /\ Taken(ml, j))

\* re.finditer: the spans <<start, end>> of the matches, from the left
FindIter(lengths) ==
  Only({Only({[k \in 1..Len(starts) |-> <<starts[k], starts[k] + ml[starts[k] + 1]>>] :
                starts \in {SortedSeq({i \in 0..(Len(ml) - 1) : Taken(ml, i)})}}) :
          ml \in {lengths}})

\* re.sub: the match at offset i, when taken, is replaced by rep[i + 1]
Substitute(text, lengths, replacements) ==
  Only({Only({Flatten([i \in 1..Len(s) |->
                IF found[i] > 0 THEN rep[i]
                ELSE IF \E j \in 1..(i - 1) : found[j] > i - j THEN <<>>
                ELSE <<s[i]>>]) :
              found \in {[i \in 1..Len(s) |-> IF Taken(ml, i - 1) THEN ml[i] ELSE 0]}}) :
          s \in {text}, ml \in {lengths}, rep \in {replacements}})

\* str.replace(old, new) for a non-empty old: leftmost, non-overlapping
ReplaceAll(text, old, new) ==
  Only({Substitute(s, [i \in 1..Len(s) |-> IF MatchAt(s, old, i - 1) THEN Len(old) ELSE 0],
                   [i \in 1..Len(s) |-> new]) : s \in {text}})

RECURSIVE ReplaceFirst(_, _, _)
\* text.replace(old, new) for the first k pairs <<old, new>> of a list, one
\* after the other
ReplaceFirst(text, pairs, k) ==
  IF k = 0 THEN text
  ELSE ReplaceAll(ReplaceFirst(text, pairs, k - 1), pairs[k][1], pairs[k][2])

\* a chain of str.replace calls
ReplaceEach(text, pairs) == ReplaceFirst(text, pairs, Len(pairs))

\* the offset where the run of characters of the set P that starts at
\* offset i ends
RunEnd(s, i, P) ==
  IF i >= Len(s) THEN i
  ELSE Min({j \in i..Len(s) : j = Len(s) \/ s[j + 1] \notin P})

\* the offset where the run of characters of the set P that ends at offset i
\* starts
RunStart(s, i, P) == Min({p \in 0..i : \A q \in (p + 1)..i : s[q] \in P})

\* str.strip
Strip(text) ==
  Only({Only({IF keep = {} THEN <<>> ELSE SubSeq(s, Min(keep), Max(keep)) :
                keep \in {{i \in 1..Len(s) : ~IsSpace(s[i])}}}) :
          s \in {text}})

_SUPERSCRIPT_TRANSLATION(c) ==
  CASE c = "u2070" -> <<"^","0">>
    [] c = "u00b9" -> <<"^","1">>
    [] c = "u00b2" -> <<"^","2">>
    [] c = "u00b3" -> <<"^","3">>
    [] c = "u2074" -> <<"^","4">>
    [] c = "u2075" -> <<"^","5">>
    [] c = "u2076" -> <<"^","6">>
    [] c = "u2077" -> <<"^","7">>
    [] c = "u2078" -> <<"^","8">>
    [] c = "u2079" -> <<"^","9">>
    [] c = "u2080" -> <<"0">>
    [] c = "u2081" -> <<"1">>
    [] c = "u2082" -> <<"2">>
    [] c = "u2083" -> <<"3">>
    [] c = "u2084" -> <<"4">>
    [] c = "u2085" -> <<"5">>
    [] c = "u2086" -> <<"6">>
    [] c = "u2087" -> <<"7">>
    [] c = "u2088" -> <<"8">>
    [] c = "u2089" -> <<"9">>
    [] c = "u207b" -> <<"-">>
    [] OTHER -> <<c>>

\* str.translate(_SUPERSCRIPT_TRANSLATION)
Translate(text) ==
  Only({Flatten([i \in 1..Len(s) |-> _SUPERSCRIPT_TRANSLATION(s[i])]) : s \in {text}})

---------------------------------------------------------------------------
(* Unit catalog and field schemas                                          *)

UNIT_CATALOG ==
  <<
    [canonical |-> "wt.%", name |-> <<"w","t",".","%">>, type |-> "fraction",
     aliases |-> << <<"w","t",".","%">>, <<"w","t","%">>, <<"w","t","p","c","t">>, <<"u8d28","u91cf","%">>,
                 <<"u8d28","u91cf","u767e","u5206","u6570">>, <<"u8d28","u91cf","u5206","u6570">>,
                 <<"u91cd","u91cf","%">>, <<"u91cd","u91cf","u5206","u6570">>, <<"w","t",".","-","%">>,
                 <<"m","a","s","s","%">> >>],
    [canonical |-> "%", name |-> <<"%">>, type |-> "percent",
     aliases |-> << <<"%">>, <<"uff05">>, <<"p","c","t">>, <<"p","e","r","c","e","n","t">> >>],
    [canonical |-> "at.%", name |-> <<"a","t",".","%">>, type |-> "fraction",
     aliases |-> << <<"a","t",".","%">>, <<"a","t","%">>, <<"u539f","u5b50","%">>,
                 <<"u539f","u5b50","u5206","u6570">> >>],
    [canonical |-> "degC", name |-> <<"u00b0","C">>, type |-> "temperature",
     aliases |-> << <<"u00b0","c">>, <<"u2103">>, <<"d","e","g","c">>, <<"d","e","g","r","e","e","s"," ","c">>,
                 <<"u6444","u6c0f","u5ea6">>, <<"u6444","u6c0f">> >>],
    [canonical |-> "K", name |-> <<"K">>, type |-> "temperature",
     aliases |-> << <<"k">>, <<"k","e","l","v","i","n">>, <<"u5f00","u5c14","u6587">> >>],
    [canonical |-> "degF", name |-> <<"u00b0","F">>, type |-> "temperature",
     aliases |-> << <<"u00b0","f">>, <<"f","a","h","r","e","n","h","e","i","t">> >>],
    [canonical |-> "min", name |-> <<"m","i","n">>, type |-> "time",
     aliases |-> << <<"m","i","n">>, <<"m","i","n","s">>, <<"m","i","n","u","t","e">>,
                 <<"m","i","n","u","t","e","s">>, <<"m","i","n",".">>, <<"u5206","u949f">> >>],
    [canonical |-> "h", name |-> <<"h">>, type |-> "time",
     aliases |-> << <<"h">>, <<"h","r">>, <<"h","r","s">>, <<"h","o","u","r">>, <<"h","o","u","r","s">>,
                 <<"u5c0f","u65f6">> >>],
    [canonical |-> "s", name |-> <<"s">>, type |-> "time",
     aliases |-> << <<"s">>, <<"s","e","c">>, <<"s","e","c","s">>, <<"s","e","c","o","n","d">>,
                 <<"s","e","c","o","n","d","s">>, <<"u79d2">> >>],
    [canonical |-> "MPa", name |-> <<"M","P","a">>, type |-> "stress",
     aliases |-> << <<"m","p","a">>, <<"u5146","u5e15">> >>],
    [canonical |-> "GPa", name |-> <<"G","P","a">>, type |-> "stress",
     aliases |-> << <<"g","p","a">>, <<"u5409","u5e15">> >>],
    [canonical |-> "Pa", name |-> <<"P","a">>, type |-> "stress",
     aliases |-> << <<"p","a">> >>],
    [canonical |-> "kPa", name |-> <<"k","P","a">>, type |-> "stress",
     aliases |-> << <<"k","p","a">> >>],
    [canonical |-> "HV", name |-> <<"H","V">>, type |-> "hardness",
     aliases |-> << <<"h","v">> >>],
    [canonical |-> "HRC", name |-> <<"H","R","C">>, type |-> "hardness",
     aliases |-> << <<"h","r","c">> >>],
    [canonical |-> "HB", name |-> <<"H","B">>, type |-> "hardness",
     aliases |-> << <<"h","b">>, <<"b","r","i","n","e","l","l">>, <<"u5e03","u6c0f">> >>],
    [canonical |-> "J", name |-> <<"J">>, type |-> "energy",
     aliases |-> << <<"j">>, <<"u7126">>, <<"u7126","u8033">> >>],
    [canonical |-> "kJ", name |-> <<"k","J">>, type |-> "energy",
     aliases |-> << <<"k","j">>, <<"u5343","u7126">> >>],
    [canonical |-> "kJ/m^2", name |-> <<"k","J","/","m","^","2">>, type |-> "energy_density",
     aliases |-> << <<"k","j","/","m","^","2">>, <<"k","j","u00b7","m","^","-","2">>, <<"k","j","/","m","2">>,
                 <<"k","j","u00b7","m","-","2">>, <<"k","j"," ","m","^","-","2">>, <<"k","J","/","m","u00b2">>,
                 <<"k","J","u00b7","m","^","-","2">> >>],
    [canonical |-> "J/cm^2", name |-> <<"J","/","c","m","^","2">>, type |-> "energy_density",
     aliases |-> << <<"j","/","c","m","^","2">>, <<"j","u00b7","c","m","^","-","2">>, <<"j","/","c","m","2">>,
                 <<"J","/","c","m","u00b2">> >>],
    [canonical |-> "degC/s", name |-> <<"u00b0","C","/","s">>, type |-> "cooling_rate",
     aliases |-> << <<"u00b0","c","/","s">>, <<"u2103","/","s">>, <<"k","/","s">> >>],
    [canonical |-> "degC/min", name |-> <<"u00b0","C","/","m","i","n">>, type |-> "cooling_rate",
     aliases |-> << <<"u00b0","c","/","m","i","n">>, <<"u2103","/","m","i","n">> >>],
    [canonical |-> "um", name |-> <<"u03bc","m">>, type |-> "length",
     aliases |-> << <<"u03bc","m">>, <<"u","m">>, <<"m","i","c","r","o","n">>, <<"u5fae","u7c73">> >>],
    [canonical |-> "mm", name |-> <<"m","m">>, type |-> "length",
     aliases |-> << <<"m","m">>, <<"u6beb","u7c73">> >>]
  >>

COMPOSITION_FIELDS ==
  <<
    [field |-> "C", unit_type |-> "fraction", default_unit |-> "wt.%",
     allowed_units |-> << "wt.%", "%", "at.%" >>, categorical |-> FALSE,
     aliases |-> << <<"C">>, <<"c","a","r","b","o","n">>, <<"u78b3">>, <<"C","u542b","u91cf">>,
                 <<"u78b3","u542b","u91cf">> >>,
     context |-> <<  >>,
     choices |-> <<  >>],
    [field |-> "Si", unit_type |-> "fraction", default_unit |-> "wt.%",
     allowed_units |-> << "wt.%", "%", "at.%" >>, categorical |-> FALSE,
     aliases |-> << <<"S","i">>, <<"s","i","l","i","c","o","n">>, <<"u7845">> >>,
     context |-> <<  >>,
     choices |-> <<  >>],
    [field |-> "Mn", unit_type |-> "fraction", default_unit |-> "wt.%",
     allowed_units |-> << "wt.%", "%", "at.%" >>, categorical |-> FALSE,
     aliases |-> << <<"M","n">>, <<"m","a","n","g","a","n","e","s","e">>, <<"u9530">> >>,
     context |-> <<  >>,
     choices |-> <<  >>],
    [field |-> "Cr", unit_type |-> "fraction", default_unit |-> "wt.%",
     allowed_units |-> << "wt.%", "%", "at.%" >>, categorical |-> FALSE,
     aliases |-> << <<"C","r">>, <<"c","h","r","o","m","i","u","m">>, <<"u94ec">> >>,
     context |-> <<  >>,
     choices |-> <<  >>],
    [field |-> "Mo", unit_type |-> "fraction", default_unit |-> "wt.%",
     allowed_units |-> << "wt.%", "%", "at.%" >>, categorical |-> FALSE,
     aliases |-> << <<"M","o">>, <<"m","o","l","y","b","d","e","n","u","m">>, <<"u94bc">> >>,
     context |-> <<  >>,
     choices |-> <<  >>],
    [field |-> "Ni", unit_type |-> "fraction", default_unit |-> "wt.%",
     allowed_units |-> << "wt.%", "%", "at.%" >>, categorical |-> FALSE,
     aliases |-> << <<"N","i">>, <<"n","i","c","k","e","l">>, <<"u954d">> >>,
     context |-> <<  >>,
     choices |-> <<  >>],
    [field |-> "V", unit_type |-> "fraction", default_unit |-> "wt.%",
     allowed_units |-> << "wt.%", "%", "at.%" >>, categorical |-> FALSE,
     aliases |-> << <<"V">>, <<"v","a","n","a","d","i","u","m">>, <<"u9492">> >>,
     context |-> <<  >>,
     choices |-> <<  >>],
    [field |-> "Ti", unit_type |-> "fraction", default_unit |-> "wt.%",
     allowed_units |-> << "wt.%", "%", "at.%" >>, categorical |-> FALSE,
     aliases |-> << <<"T","i">>, <<"t","i","t","a","n","i","u","m">>, <<"u949b">> >>,
     context |-> <<  >>,
     choices |-> <<  >>],
    [field |-> "Al", unit_type |-> "fraction", default_unit |-> "wt.%",
     allowed_units |-> << "wt.%", "%", "at.%" >>, categorical |-> FALSE,
     aliases |-> << <<"A","l">>, <<"a","l","u","m","i","n","i","u","m">>, <<"u94dd">>,
                 <<"a","l","u","m","i","n","u","m">> >>,
     context |-> <<  >>,
     choices |-> <<  >>],
    [field |-> "Cu", unit_type |-> "fraction", default_unit |-> "wt.%",
     allowed_units |-> << "wt.%", "%", "at.%" >>, categorical |-> FALSE,
     aliases |-> << <<"C","u">>, <<"c","o","p","p","e","r">>, <<"u94dc">> >>,
     context |-> <<  >>,
     choices |-> <<  >>],
    [field |-> "Nb", unit_type |-> "fraction", default_unit |-> "wt.%",
     allowed_units |-> << "wt.%", "%", "at.%" >>, categorical |-> FALSE,
     aliases |-> << <<"N","b">>, <<"n","i","o","b","i","u","m">>, <<"u94cc">> >>,
     context |-> <<  >>,
     choices |-> <<  >>],
    [field |-> "B", unit_type |-> "fraction", default_unit |-> "wt.%",
     allowed_units |-> << "wt.%", "%", "at.%" >>, categorical |-> FALSE,
     aliases |-> << <<"B">>, <<"b","o","r","o","n">>, <<"u787c">> >>,
     context |-> <<  >>,
     choices |-> <<  >>],
    [field |-> "P", unit_type |-> "fraction", default_unit |-> "wt.%",
     allowed_units |-> << "wt.%", "%", "at.%" >>, categorical |-> FALSE,
     aliases |-> << <<"P">>, <<"p","h","o","s","p","h","o","r","u","s">>, <<"u78f7">> >>,
     context |-> <<  >>,
     choices |-> <<  >>],
    [field |-> "S", unit_type |-> "fraction", default_unit |-> "wt.%",
     allowed_units |-> << "wt.%", "%", "at.%" >>, categorical |-> FALSE,
     aliases |-> << <<"S">>, <<"s","u","l","f","u","r">>, <<"u786b">> >>,
     context |-> <<  >>,
     choices |-> <<  >>],
    [field |-> "N", unit_type |-> "fraction", default_unit |-> "wt.%",
     allowed_units |-> << "wt.%", "%", "at.%" >>, categorical |-> FALSE,
     aliases |-> << <<"N">>, <<"n","i","t","r","o","g","e","n">>, <<"u6c2e">> >>,
     context |-> <<  >>,
     choices |-> <<  >>],
    [field |-> "W", unit_type |-> "fraction", default_unit |-> "wt.%",
     allowed_units |-> << "wt.%", "%", "at.%" >>, categorical |-> FALSE,
     aliases |-> << <<"W">>, <<"t","u","n","g","s","t","e","n">>, <<"u94a8">> >>,
     context |-> <<  >>,
     choices |-> <<  >>],
    [field |-> "Co", unit_type |-> "fraction", default_unit |-> "wt.%",
     allowed_units |-> << "wt.%", "%", "at.%" >>, categorical |-> FALSE,
     aliases |-> << <<"C","o">>, <<"c","o","b","a","l","t">>, <<"u94b4">> >>,
     context |-> <<  >>,
     choices |-> <<  >>],
    [field |-> "Fe", unit_type |-> "fraction", default_unit |-> "wt.%",
     allowed_units |-> << "wt.%", "%", "at.%" >>, categorical |-> FALSE,
     aliases |-> << <<"F","e">>, <<"i","r","o","n">>, <<"u94c1">> >>,
     context |-> <<  >>,
     choices |-> <<  >>]
  >>

HEAT_TREATMENT_FIELDS ==
  <<
    [field |-> "austenitizing_temperature", unit_type |-> "temperature", default_unit |-> "degC",
     allowed_units |-> << "degC", "K" >>, categorical |-> FALSE,
     aliases |-> << <<"a","u","s","t","e","n","i","t","i","z","i","n","g"," ","t","e","m","p","e","r","a","t","u","r","e">>,
                 <<"a","u","s","t","e","n","i","t","i","z","e","d"," ","a","t">>,
                 <<"u5965","u6c0f","u4f53","u5316","u6e29","u5ea6">>,
                 <<"u5965","u6c0f","u4f53","u5316","u5728">>,
                 <<"a","u","s","t","e","n","i","t","i","z","i","n","g">> >>,
     context |-> <<  >>,
     choices |-> <<  >>],
    [field |-> "austenitizing_time", unit_type |-> "time", default_unit |-> "min",
     allowed_units |-> << "min", "h", "s" >>, categorical |-> FALSE,
     aliases |-> << <<"a","u","s","t","e","n","i","t","i","z","i","n","g"," ","t","i","m","e">>,
                 <<"a","u","s","t","e","n","i","t","i","z","e","d"," ","f","o","r">>, <<"f","o","r">>,
                 <<"u5965","u6c0f","u4f53","u5316","u65f6","u95f4">>, <<"u4fdd","u6e29","u65f6","u95f4">>,
                 <<"u4fdd","u6e29">> >>,
     context |-> << <<"a","u","s","t","e","n","i","t","i","z","e","d">>,
                 <<"a","u","s","t","e","n","i","t","i","z","i","n","g">>, <<"u5965","u6c0f","u4f53","u5316">> >>,
     choices |-> <<  >>],
    [field |-> "tempering_temperature", unit_type |-> "temperature", default_unit |-> "degC",
     allowed_units |-> << "degC", "K" >>, categorical |-> FALSE,
     aliases |-> << <<"t","e","m","p","e","r","i","n","g"," ","t","e","m","p","e","r","a","t","u","r","e">>,
                 <<"t","e","m","p","e","r","e","d"," ","a","t">>, <<"u56de","u706b","u6e29","u5ea6">>,
                 <<"t","e","m","p","e","r","i","n","g">> >>,
     context |-> <<  >>,
     choices |-> <<  >>],
    [field |-> "tempering_time", unit_type |-> "time", default_unit |-> "min",
     allowed_units |-> << "min", "h", "s" >>, categorical |-> FALSE,
     aliases |-> << <<"t","e","m","p","e","r","i","n","g"," ","t","i","m","e">>,
                 <<"t","e","m","p","e","r","e","d"," ","f","o","r">>, <<"f","o","r">>,
                 <<"u56de","u706b","u65f6","u95f4">> >>,
     context |-> << <<"t","e","m","p","e","r","e","d">>, <<"t","e","m","p","e","r","i","n","g">>,
                 <<"u56de","u706b">> >>,
     choices |-> <<  >>],
    [field |-> "isothermal_temperature", unit_type |-> "temperature", default_unit |-> "degC",
     allowed_units |-> << "degC", "K" >>, categorical |-> FALSE,
     aliases |-> << <<"i","s","o","t","h","e","r","m","a","l"," ","t","e","m","p","e","r","a","t","u","r","e">>,
                 <<"u7b49","u6e29","u6e29","u5ea6">>, <<"i","s","o","t","h","e","r","m","a","l"," ","a","t">> >>,
     context |-> <<  >>,
     choices |-> <<  >>],
    [field |-> "isothermal_time", unit_type |-> "time", default_unit |-> "min",
     allowed_units |-> << "min", "h", "s" >>, categorical |-> FALSE,
     aliases |-> << <<"i","s","o","t","h","e","r","m","a","l"," ","t","i","m","e">>,
                 <<"u7b49","u6e29","u65f6","u95f4">>, <<"u7b49","u6e29","u4fdd","u6301">>, <<"f","o","r">> >>,
     context |-> << <<"i","s","o","t","h","e","r","m","a","l">>, <<"u7b49","u6e29">> >>,
     choices |-> <<  >>],
    [field |-> "cooling_rate", unit_type |-> "cooling_rate", default_unit |-> "degC/s",
     allowed_units |-> << "degC/s", "degC/min" >>, categorical |-> FALSE,
     aliases |-> << <<"c","o","o","l","i","n","g"," ","r","a","t","e">>, <<"u51b7","u5374","u901f","u5ea6">>,
                 <<"u51b7","u5374","u901f","u7387">> >>,
     context |-> <<  >>,
     choices |-> <<  >>],
    [field |-> "quenching_medium", unit_type |-> "None", default_unit |-> "None",
     allowed_units |-> <<  >>, categorical |-> TRUE,
     aliases |-> << <<"q","u","e","n","c","h">>, <<"q","u","e","n","c","h","i","n","g">>, <<"u6dec","u706b">>,
                 <<"u51b7","u5374","u4ecb","u8d28">>, <<"q","u","e","n","c","h","e","d">> >>,
     context |-> <<  >>,
     choices |-> << [canonical |-> "water", tokens |-> << <<"w","a","t","e","r">>, <<"u6c34","u6dec">>, <<"w","a","t","e","r"," ","q","u","e","n","c","h">> >>], [canonical |-> "oil", tokens |-> << <<"o","i","l">>, <<"u6cb9","u6dec">>, <<"o","i","l"," ","q","u","e","n","c","h">> >>], [canonical |-> "air", tokens |-> << <<"a","i","r">>, <<"u7a7a","u51b7">>, <<"a","i","r"," ","c","o","o","l","e","d">> >>], [canonical |-> "salt bath", tokens |-> << <<"s","a","l","t"," ","b","a","t","h">>, <<"u76d0","u6d74">> >>], [canonical |-> "polymer", tokens |-> << <<"p","o","l","y","m","e","r">>, <<"u805a","u5408","u7269">> >>] >>]
  >>

MECHANICAL_PROPERTY_FIELDS ==
  <<
    [field |-> "tensile_strength", unit_type |-> "stress", default_unit |-> "MPa",
     allowed_units |-> << "MPa", "GPa", "Pa", "kPa" >>, categorical |-> FALSE,
     aliases |-> << <<"t","e","n","s","i","l","e"," ","s","t","r","e","n","g","t","h">>,
                 <<"u","l","t","i","m","a","t","e"," ","t","e","n","s","i","l","e"," ","s","t","r","e","n","g","t","h">>,
                 <<"U","T","S">>, <<"u6297","u62c9","u5f3a","u5ea6">>, <<"R","m">> >>,
     context |-> <<  >>,
     choices |-> <<  >>],
    [field |-> "yield_strength", unit_type |-> "stress", default_unit |-> "MPa",
     allowed_units |-> << "MPa", "GPa", "Pa", "kPa" >>, categorical |-> FALSE,
     aliases |-> << <<"y","i","e","l","d"," ","s","t","r","e","n","g","t","h">>,
                 <<"y","i","e","l","d"," ","s","t","r","e","s","s">>,
                 <<"0",".","2","%"," ","p","r","o","o","f"," ","s","t","r","e","s","s">>,
                 <<"R","p","0",".","2">>, <<"Y","S">>, <<"R","p","0",",","2">>,
                 <<"u5c48","u670d","u5f3a","u5ea6">>, <<"u5c48","u670d","u70b9">> >>,
     context |-> <<  >>,
     choices |-> <<  >>],
    [field |-> "elongation", unit_type |-> "percent", default_unit |-> "%",
     allowed_units |-> << "%" >>, categorical |-> FALSE,
     aliases |-> << <<"e","l","o","n","g","a","t","i","o","n">>,
                 <<"e","l","o","n","g","a","t","i","o","n"," ","t","o"," ","f","a","i","l","u","r","e">>,
                 <<"u4f38","u957f","u7387">>, <<"u5ef6","u4f38","u7387">>, <<"E","l">> >>,
     context |-> <<  >>,
     choices |-> <<  >>],
    [field |-> "reduction_of_area", unit_type |-> "percent", default_unit |-> "%",
     allowed_units |-> << "%" >>, categorical |-> FALSE,
     aliases |-> << <<"r","e","d","u","c","t","i","o","n"," ","o","f"," ","a","r","e","a">>,
                 <<"u65ad","u9762","u6536","u7f29","u7387">>, <<"R","A">> >>,
     context |-> <<  >>,
     choices |-> <<  >>],
    [field |-> "hardness", unit_type |-> "hardness", default_unit |-> "None",
     allowed_units |-> << "HV", "HRC", "HB" >>, categorical |-> FALSE,
     aliases |-> << <<"h","a","r","d","n","e","s","s">>, <<"u786c","u5ea6">>, <<"H","V">>, <<"H","R","C">>,
                 <<"H","B">> >>,
     context |-> <<  >>,
     choices |-> <<  >>],
    [field |-> "impact_toughness", unit_type |-> "None", default_unit |-> "J",
     allowed_units |-> << "J", "kJ/m^2", "J/cm^2" >>, categorical |-> FALSE,
     aliases |-> << <<"i","m","p","a","c","t"," ","t","o","u","g","h","n","e","s","s">>,
                 <<"u51b2","u51fb","u97e7","u6027">>, <<"u51b2","u51fb","u5438","u6536","u529f">>, <<"K","V">> >>,
     context |-> <<  >>,
     choices |-> <<  >>],
    [field |-> "fatigue_strength", unit_type |-> "stress", default_unit |-> "MPa",
     allowed_units |-> << "MPa", "GPa", "Pa", "kPa" >>, categorical |-> FALSE,
     aliases |-> << <<"f","a","t","i","g","u","e"," ","s","t","r","e","n","g","t","h">>,
                 <<"f","a","t","i","g","u","e"," ","l","i","m","i","t">>, <<"u75b2","u52b3","u5f3a","u5ea6">>,
                 <<"u75b2","u52b3","u6781","u9650">>, <<"u03c3","-","1">> >>,
     context |-> <<  >>,
     choices |-> <<  >>]
  >>

MICROSTRUCTURE_FIELDS ==
  <<
    [field |-> "bainite_fraction", unit_type |-> "percent", default_unit |-> "%",
     allowed_units |-> << "%" >>, categorical |-> FALSE,
     aliases |-> << <<"b","a","i","n","i","t","e"," ","f","r","a","c","t","i","o","n">>,
                 <<"u8d1d","u6c0f","u4f53","u542b","u91cf">>,
                 <<"u8d1d","u6c0f","u4f53","u4f53","u79ef","u5206","u6570">> >>,
     context |-> <<  >>,
     choices |-> <<  >>],
    [field |-> "martensite_fraction", unit_type |-> "percent", default_unit |-> "%",
     allowed_units |-> << "%" >>, categorical |-> FALSE,
     aliases |-> << <<"m","a","r","t","e","n","s","i","t","e"," ","f","r","a","c","t","i","o","n">>,
                 <<"u9a6c","u6c0f","u4f53","u542b","u91cf">>,
                 <<"u9a6c","u6c0f","u4f53","u4f53","u79ef","u5206","u6570">> >>,
     context |-> <<  >>,
     choices |-> <<  >>],
    [field |-> "ferrite_fraction", unit_type |-> "percent", default_unit |-> "%",
     allowed_units |-> << "%" >>, categorical |-> FALSE,
     aliases |-> << <<"f","e","r","r","i","t","e"," ","f","r","a","c","t","i","o","n">>,
                 <<"u94c1","u7d20","u4f53","u542b","u91cf">>,
                 <<"u94c1","u7d20","u4f53","u4f53","u79ef","u5206","u6570">> >>,
     context |-> <<  >>,
     choices |-> <<  >>],
    [field |-> "austenite_fraction", unit_type |-> "percent", default_unit |-> "%",
     allowed_units |-> << "%" >>, categorical |-> FALSE,
     aliases |-> << <<"a","u","s","t","e","n","i","t","e"," ","f","r","a","c","t","i","o","n">>,
                 <<"u5965","u6c0f","u4f53","u542b","u91cf">>, <<"u6b8b","u4f59","u5965","u6c0f","u4f53">> >>,
     context |-> <<  >>,
     choices |-> <<  >>],
    [field |-> "grain_size", unit_type |-> "length", default_unit |-> "um",
     allowed_units |-> << "um", "mm" >>, categorical |-> FALSE,
     aliases |-> << <<"g","r","a","i","n"," ","s","i","z","e">>, <<"u6676","u7c92","u5c3a","u5bf8">>,
                 <<"u6676","u7c92","u5927","u5c0f">> >>,
     context |-> <<  >>,
     choices |-> <<  >>]
  >>

---------------------------------------------------------------------------
(* Unit aliases: UNIT_ALIAS_TO_CANONICAL, canonicalize_unit                *)

\* the replacements the module-level loop applies to a stripped, lower-cased
\* alias before it becomes a key of UNIT_ALIAS_TO_CANONICAL
AliasReplacements ==
  << << <<"u2103">>, <<"u00b0","c">> >>,
     << <<"uff05">>, <<"%">> >>,
     << <<"u00b7">>, <<>> >>,
     << <<"u22c5">>, <<>> >>,
     << <<"uff0f">>, <<"/">> >>,
     << <<"u202f">>, <<>> >>,
     << <<"u00a0">>, <<>> >> >>

\* the aliases of one catalog entry together with its canonical name
Spellings(u) == u.aliases \o <<u.name>>

\* the assignments key -> canonical the loop makes, in order; an empty key is
\* skipped
AliasAssignments ==
  SelectSeq(
    Flatten([k \in 1..Len(UNIT_CATALOG) |->
      Only({[j \in 1..Len(Spellings(u)) |->
               [key |-> ReplaceEach(Lower(Strip(Spellings(u)[j])), AliasReplacements),
                canonical |-> u.canonical]] : u \in {UNIT_CATALOG[k]}})]),
    LAMBDA e : e.key # <<>>)

\* the dictionary: a later assignment to a key overwrites an earlier one
UNIT_ALIAS_TO_CANONICAL ==
  Only({[key \in {e[i].key : i \in DOMAIN e} |->
           e[Max({i \in DOMAIN e : e[i].key = key})].canonical] :
          e \in {AliasAssignments}})

\* the replacements of normalize_unit_alias, in order: the dictionary
\* replacements and the four squared-unit replacements, then the blank
UnitReplacements ==
  AliasReplacements \o
  << << <<"u03bc">>, <<"u03bc">> >>,
     << <<"u","m">>, <<"u03bc","m">> >>,
     << <<"m","u00b2">>, <<"m","^","2">> >>,
     << <<"c","m","u00b2">>, <<"c","m","^","2">> >>,
     << <<"m","u207b","u00b2">>, <<"m","^","-","2">> >>,
     << <<"c","m","u207b","u00b2">>, <<"c","m","^","-","2">> >>,
     << <<" ">>, <<>> >> >>

normalize_unit_alias(unit) ==
  Only({IF u = <<>> THEN <<>>
        ELSE ReplaceEach(Translate(Lower(Strip(u))), UnitReplacements) :
          u \in {unit}})

\* the loop over UNIT_ALIAS_SORTED (keys by decreasing length): the first
\* key the text starts with is the longest one, and two keys of one length
\* that both start the text are the same key
PrefixAlias(normalized, table) ==
  Only({IF pre = {} THEN None
        ELSE table[CHOOSE k \in pre : \A o \in pre : Len(o) <= Len(k)] :
          pre \in {{k \in DOMAIN table : MatchAt(normalized, k, 0)}}})

\* canonicalize_unit with the prefix loop left out
canonicalize_unit_exact(unit) ==
  Only({IF normalized = <<>> THEN None
        ELSE IF normalized \in DOMAIN table THEN table[normalized]
        ELSE None :
          normalized \in {normalize_unit_alias(unit)}, table \in {UNIT_ALIAS_TO_CANONICAL}})

\* an empty unit has an empty normalised form
canonicalize_unit(unit) ==
  Only({IF normalized = <<>> THEN None
        ELSE IF normalized \in DOMAIN table THEN table[normalized]
        ELSE PrefixAlias(normalized, table) :
          normalized \in {normalize_unit_alias(unit)}, table \in {UNIT_ALIAS_TO_CANONICAL}})

---------------------------------------------------------------------------
(* Exact arithmetic on the values the parser produces                      *)

Abs(n) == IF n < 0 THEN -n ELSE n

RECURSIVE GCD(_, _)
GCD(a, b) == IF b = 0 THEN a ELSE GCD(b, a % b)

\* the rational n/d in lowest terms with a positive denominator.  The
\* floats that are no rationals have denominator 0: 1/0 is inf, -1/0 is
\* -inf and 0/0 is nan.
Rat(n, d) ==
  IF d = 0 THEN [n |-> (IF n > 0 THEN 1 ELSE IF n < 0 THEN -1 ELSE 0), d |-> 0]
  ELSE LET g == GCD(Abs(n), Abs(d))
           s == IF d < 0 THEN -1 ELSE 1
       IN  [n |-> s * (n \div g), d |-> s * (d \div g)]

Infinity == [n |-> 1, d |-> 0]
NaN == [n |-> 0, d |-> 0]

RatAdd(a, b) ==
  IF a.d = 0 /\ b.d = 0 THEN (IF a = b THEN a ELSE NaN)
  ELSE Rat(a.n * b.d + b.n * a.d, a.d * b.d)
RatSub(a, b) == RatAdd(a, [n |-> -b.n, d |-> b.d])
RatMul(a, b) == Rat(a.n * b.n, a.d * b.d)
RatDiv(a, b) == Rat(a.n * b.d, a.d * b.n)
\* a < b and a <= b of floats: FALSE when either is nan
RatLt(a, b) ==
  IF a.d = 0 /\ b.d = 0 THEN a.n # 0 /\ b.n # 0 /\ a.n < b.n
  ELSE a.n * b.d < b.n * a.d
RatLe(a, b) ==
  IF a = NaN \/ b = NaN THEN FALSE
  ELSE IF a.d = 0 /\ b.d = 0 THEN a.n <= b.n
  ELSE a.n * b.d <= b.n * a.d
\* min(a, b) and max(a, b) of Python: a unless b is smaller (larger)
RatMin(a, b) == IF RatLt(b, a) THEN b ELSE a
RatMax(a, b) == IF RatLt(a, b) THEN b ELSE a
RatInt(k) == Rat(k, 1)

RECURSIVE Pow10(_)
Pow10(k) == IF k = 0 THEN 1 ELSE 10 * Pow10(k - 1)

---------------------------------------------------------------------------
(* Numeric expressions: parse_single_numeric, split_range_parts,           *)
(* parse_numeric_expression                                                *)

\* the offset where the run of digits that starts at offset i ends
DigitRunEnd(s, i) == RunEnd(s, i, DigitChars)

\* the offset where the run of whitespace that starts at offset i ends
SpaceRunEnd(s, i) == RunEnd(s, i, SpaceChars)

RECURSIVE DigitsValue(_, _, _)
\* the number written by the digits s[a:b]
DigitsValue(s, a, b) ==
  IF a >= b THEN 0 ELSE DigitsValue(s, a, b - 1) * 10 + DigitValue(s[b])

NoFloat == [ok |-> FALSE, v |-> RatInt(0)]

\* the words float reads, in any case and after an optional sign
FloatWords ==
  [w \in {<<"i","n","f">>, <<"i","n","f","i","n","i","t","y">>, <<"n","a","n">>} |->
     IF w = <<"n","a","n">> THEN NaN ELSE Infinity]

\* float(token) for a decimal literal: sign, digits, fraction, exponent
DecimalFloat(token) ==
  Only({
    LET neg == At(t, 0) = "-"
        i0 == IF At(t, 0) \in {"-", "+"} THEN 1 ELSE 0
        i1 == DigitRunEnd(t, i0)
        dot == At(t, i1) = "."
        f0 == IF dot THEN i1 + 1 ELSE i1
        f1 == DigitRunEnd(t, f0)
        hasExp == At(t, f1) = "e"
        eneg == hasExp /\ At(t, f1 + 1) = "-"
        e0 == IF ~hasExp THEN f1
              ELSE IF At(t, f1 + 1) \in {"-", "+"} THEN f1 + 2 ELSE f1 + 1
        e1 == DigitRunEnd(t, e0)
        mant == DigitsValue(t, i0, i1) * Pow10(f1 - f0) + DigitsValue(t, f0, f1)
        ex == (IF eneg THEN -1 ELSE 1) * DigitsValue(t, e0, e1) - (f1 - f0)
        sgn == IF neg THEN -1 ELSE 1
    IN  IF \/ (i1 = i0 /\ f1 = f0)
           \/ (hasExp /\ e1 = e0)
           \/ e1 # Len(t)
          THEN NoFloat
          ELSE [ok |-> TRUE,
                v |-> IF ex >= 0 THEN Rat(sgn * mant * Pow10(ex), 1)
                      ELSE Rat(sgn * mant, Pow10(-ex))] :
    t \in {token}})

\* float(token): inf, infinity and nan, or a decimal literal.  ValueError is
\* ok = FALSE.
ParseFloat(token) ==
  Only({IF word \in DOMAIN FloatWords
          THEN [ok |-> TRUE,
                v |-> [n |-> (IF At(t, 0) = "-" THEN -1 ELSE 1) * FloatWords[word].n,
                       d |-> 0]]
          ELSE DecimalFloat(t) :
        t \in {token},
        word \in {Lower(IF At(token, 0) \in {"-", "+"}
                          THEN Slice(token, 1, Len(token)) ELSE token)}})

\* re.sub of  lit \s* sign (?=\d)  by rep (without the \s* when ws is FALSE)
SubSignedExponent(text, lit, ws, sign, rep) ==
  Only({
    LET SignAt(i) == IF ws THEN SpaceRunEnd(s, i + Len(lit)) ELSE i + Len(lit)
    IN  Substitute(s,
          [i \in 1..Len(s) |->
             IF /\ MatchAt(s, lit, i - 1)
                /\ At(s, SignAt(i - 1)) = sign
                /\ IsDigit(At(s, SignAt(i - 1) + 1))
               THEN SignAt(i - 1) + 1 - (i - 1) ELSE 0],
          [i \in 1..Len(s) |-> rep]) :
    s \in {text}})

\* re.sub(r"x10\^?([-+]?\d+)", "e\1", s)
SubPowerOfTen(text) ==
  Only({
    LET GroupAt(i) == IF At(s, i + 3) = "^" THEN i + 4 ELSE i + 3
        DigitsAt(i) == IF At(s, GroupAt(i)) \in {"-", "+"} THEN GroupAt(i) + 1 ELSE GroupAt(i)
        EndAt(i) == DigitRunEnd(s, DigitsAt(i))
        Hit(i) == MatchAt(s, <<"x","1","0">>, i) /\ EndAt(i) > DigitsAt(i)
    IN  Substitute(s,
          [i \in 1..Len(s) |-> IF Hit(i - 1) THEN EndAt(i - 1) - (i - 1) ELSE 0],
          [i \in 1..Len(s) |->
             IF Hit(i - 1) THEN <<"e">> \o Slice(s, GroupAt(i - 1), EndAt(i - 1))
             ELSE <<>>]) :
    s \in {text}})

\* the four dash characters both preprocess_text and parse_single_numeric
\* replace by the hyphen-minus
DashReplacements ==
  << << <<"u2212">>, <<"-">> >>, << <<"u2013">>, <<"-">> >>,
     << <<"u2014">>, <<"-">> >>, << <<"ufe63">>, <<"-">> >> >>

\* the replacements of parse_single_numeric before the translation of
\* superscripts
SignReplacements == DashReplacements \o << << <<"uff0b">>, <<"+">> >> >>

\* the replacements after it
PointReplacements ==
  << << <<"u00d7">>, <<"x">> >>, << <<"X">>, <<"x">> >>,
     << <<"u00b7">>, <<".">> >>, << <<"u22c5">>, <<".">> >>,
     << <<"u3001">>, <<".">> >> >>

\* the four substitutions that put a caret before a signed exponent
ExponentSigns ==
  << [lit |-> <<"x","1","0">>, ws |-> FALSE, sign |-> "-", rep |-> <<"x","1","0","^","-">>],
     [lit |-> <<"x","1","0">>, ws |-> FALSE, sign |-> "+", rep |-> <<"x","1","0","^">>],
     [lit |-> <<"1","0">>, ws |-> TRUE, sign |-> "-", rep |-> <<"1","0","^","-">>],
     [lit |-> <<"1","0">>, ws |-> TRUE, sign |-> "+", rep |-> <<"1","0","^">>] >>

RECURSIVE SubExponentSigns(_, _)
\* the first k of them, one after the other
SubExponentSigns(text, k) ==
  IF k = 0 THEN text
  ELSE Only({SubSignedExponent(SubExponentSigns(text, k - 1), e.lit, e.ws, e.sign, e.rep) :
               e \in {ExponentSigns[k]}})

\* the replacements between the exponent substitutions and x10 -> e
LetterReplacements ==
  << << <<" ">>, <<>> >>, << <<"e","+">>, <<"e">> >>, << <<"E">>, <<"e">> >> >>

DecimalComma(token) ==
  IF Contains(token, <<",">>) /\ ~Contains(token, <<".">>)
    THEN ReplaceAll(token, <<",">>, <<".">>)
    ELSE ReplaceAll(token, <<",">>, <<>>)

\* parse_single_numeric from the stripped token to the call of float: the
\* token handed to float
NumericToken(token) ==
  Only({DecimalComma(t) :
    t \in {ReplaceAll(
             SubPowerOfTen(
               ReplaceEach(
                 SubExponentSigns(
                   ReplaceEach(Translate(ReplaceEach(token, SignReplacements)),
                               PointReplacements),
                   4),
                 LetterReplacements)),
             <<"-","-">>, <<"-">>)}})

parse_single_numeric(value_str) ==
  Only({IF token = <<>> THEN NoFloat ELSE ParseFloat(NumericToken(token)) :
          token \in {Strip(value_str)}})

\* the word and tilde separators of split_range_parts' first substitution,
\* matched ignoring case
IsWordSepAt(s, i) ==
  \/ At(s, i) \in {"u81f3", "uff5e", "u301c", "~"}
  \/ (LowerChar(At(s, i)) = "t" /\ LowerChar(At(s, i + 1)) = "o")

WordSepLen(s, i) == IF At(s, i) \in {"u81f3", "uff5e", "u301c", "~"} THEN 1 ELSE 2

\* re.sub(r"\s*(?:to|u81f3|uff5e|u301c|~)\s*", "|", s, flags=re.IGNORECASE)
SubWordSeparators(text) ==
  Only({
    LET SepAt(i) == SpaceRunEnd(s, i)
    IN  Substitute(s,
          [i \in 1..Len(s) |->
             IF IsWordSepAt(s, SepAt(i - 1))
               THEN SpaceRunEnd(s, SepAt(i - 1) + WordSepLen(s, SepAt(i - 1))) - (i - 1)
               ELSE 0],
          [i \in 1..Len(s) |-> <<"|">>]) :
    s \in {text}})

\* re.sub(r"(?<![eE\^])\s*[-u2013u2014]\s*(?=[0-9])", "|", s)
SubDashSeparators(text) ==
  Only({
    LET DashAt(i) == SpaceRunEnd(s, i)
        DigitAt(i) == SpaceRunEnd(s, DashAt(i) + 1)
    IN  Substitute(s,
          [i \in 1..Len(s) |->
             IF /\ At(s, i - 2) \notin {"e", "E", "^"}
                /\ At(s, DashAt(i - 1)) \in {"-", "u2013", "u2014"}
                /\ IsDigit(At(s, DigitAt(i - 1)))
               THEN DigitAt(i - 1) - (i - 1) ELSE 0],
          [i \in 1..Len(s) |-> <<"|">>]) :
    s \in {text}})

\* str.split(sep): the pieces of the text between the occurrences of the
\* character sep
SplitOn(text, sep) ==
  Only({Only({[k \in 1..(Len(cuts) - 1) |-> SubSeq(s, cuts[k] + 1, cuts[k + 1] - 1)] :
                cuts \in {<<0>> \o SortedSeq({i \in 1..Len(s) : s[i] = sep}) \o <<Len(s) + 1>>}}) :
          s \in {text}})

\* the non-empty stripped elements of a list of strings
StrippedNonEmpty(list) ==
  Only({SelectSeq([i \in 1..Len(parts) |-> Strip(parts[i])], LAMBDA p : p # <<>>) :
          parts \in {list}})

\* split_range_parts: <<first, second>>, or <<>> for None
split_range_parts(text) ==
  Only({IF Len(parts) = 2 THEN parts ELSE <<>> :
          parts \in {StrippedNonEmpty(SplitOn(SubDashSeparators(SubWordSeparators(text)), "|"))}})

ParseNone ==
  [ok |-> FALSE, value |-> RatInt(0), has_range |-> FALSE,
   range |-> <<RatInt(0), RatInt(0)>>, approximate |-> FALSE, operator |-> None]

\* the comparison symbols in the order the loop tries them
OperatorSymbols ==
  << [sym |-> <<"<","=">>, name |-> "<="], [sym |-> <<">","=">>, name |-> ">="],
     [sym |-> <<"u2265">>, name |-> "u2265"], [sym |-> <<"u2264">>, name |-> "u2264"],
     [sym |-> <<"<">>, name |-> "<"], [sym |-> <<">">>, name |-> ">"] >>

\* the leading approximation sign of a non-empty stripped text taken off
Approximation(text) ==
  Only({IF Head(s) \in {"~", "u2248"}
          THEN [approximate |-> TRUE, text |-> Strip(Tail(s))]
          ELSE [approximate |-> FALSE, text |-> s] :
        s \in {text}})

\* the first comparison symbol the text starts with taken off, with what
\* was found before it
Comparison(found) ==
  Only({Only({IF syms = {}
                THEN [approximate |-> q.approximate, operator |-> None, text |-> q.text]
                ELSE [approximate |-> q.approximate,
                      operator |-> OperatorSymbols[Min(syms)].name,
                      text |-> Strip(Slice(q.text, Len(OperatorSymbols[Min(syms)].sym),
                                           Len(q.text)))] :
              syms \in {{k \in DOMAIN OperatorSymbols :
                           MatchAt(q.text, OperatorSymbols[k].sym, 0)}}}) :
        q \in {found}})

\* the strings parse_single_numeric is called for: the two parts of a range,
\* else the text itself
NumericParts(text) ==
  Only({IF range_parts # <<>> THEN range_parts ELSE <<s>> :
          s \in {text}, range_parts \in {split_range_parts(text)}})

\* what parse_single_numeric makes of each of them
ParsedParts(text) ==
  Only({[k \in DOMAIN parts |-> parse_single_numeric(parts[k])] :
          parts \in {NumericParts(text)}})

\* the result for the numbers the parts parsed to
NumericResult(found, parsed) ==
  Only({IF \E k \in DOMAIN numbers : ~numbers[k].ok THEN ParseNone
        ELSE IF Len(numbers) = 2
          THEN [ok |-> TRUE,
                value |-> RatDiv(RatAdd(RatMin(numbers[1].v, numbers[2].v),
                                        RatMax(numbers[1].v, numbers[2].v)), RatInt(2)),
                has_range |-> TRUE,
                range |-> <<RatMin(numbers[1].v, numbers[2].v),
                            RatMax(numbers[1].v, numbers[2].v)>>,
                approximate |-> q.approximate, operator |-> q.operator]
          ELSE [ok |-> TRUE, value |-> numbers[1].v, has_range |-> FALSE,
                range |-> <<RatInt(0), RatInt(0)>>,
                approximate |-> q.approximate, operator |-> q.operator] :
        q \in {found}, numbers \in {parsed}})

parse_numeric_expression(raw) ==
  Only({IF text = <<>> THEN ParseNone
        ELSE Only({NumericResult(q, ParsedParts(q.text)) :
                     q \in {Comparison(Approximation(text))}}) :
        text \in {Strip(raw)}})

\* re.sub(r"-\s*\n", "", s): a hyphen, whitespace and the last line feed of
\* that whitespace are dropped
SubHyphenation(text) ==
  Only({
    LET Feeds(i) == {j \in (i + 1)..(SpaceRunEnd(s, i + 1) - 1) : At(s, j) = "u000a"}
    IN  Substitute(s,
          [i \in 1..Len(s) |->
             IF s[i] = "-" /\ Feeds(i - 1) # {} THEN Max(Feeds(i - 1)) + 1 - (i - 1)
             ELSE 0],
          [i \in 1..Len(s) |-> <<>>]) :
    s \in {text}})

\* re.sub(r"\s+", " ", s)
CollapseSpaces(text) ==
  Only({Substitute(s,
          [i \in 1..Len(s) |->
             IF IsSpace(s[i]) THEN SpaceRunEnd(s, i - 1) - (i - 1) ELSE 0],
          [i \in 1..Len(s) |-> <<" ">>]) :
        s \in {text}})

\* the two replacements preprocess_text starts with
LineReplacements ==
  << << <<"u000d">>, <<"u000a">> >>, << <<"u00a0">>, <<" ">> >> >>

preprocess_text(text) ==
  Strip(CollapseSpaces(
    ReplaceEach(Translate(SubHyphenation(ReplaceEach(text, LineReplacements))),
                DashReplacements)))

---------------------------------------------------------------------------
(* Aliases and numeric spans in a sentence                                 *)

IsAlnum(c) == IsAsciiLetter(c) \/ IsDigit(c)

\* whether pat occurs in s at offset i, ignoring case (re.IGNORECASE)
MatchAtIgnoreCase(s, pat, i) ==
  /\ i >= 0
  /\ i + Len(pat) <= Len(s)
  /\ \A k \in 1..Len(pat) : LowerChar(s[i + k]) = LowerChar(pat[k])

\* build_alias_pattern: whether the pattern built for alias matches at
\* offset i of text.  A single letter must not follow a letter, digit or
\* degree sign nor precede a letter or digit; an alphanumeric alias must
\* stand between non-alphanumerics; any other alias is matched literally.
AliasMatchesAt(text, alias, i) ==
  /\ MatchAtIgnoreCase(text, alias, i)
  /\ IF Len(alias) = 1 /\ IsAsciiLetter(alias[1])
       THEN /\ ~IsAlnum(At(text, i - 1))
            /\ At(text, i - 1) # "u00b0"
            /\ ~IsAlnum(At(text, i + 1))
     ELSE IF \A k \in 1..Len(alias) : IsAlnum(alias[k])
       THEN /\ ~IsAlnum(At(text, i - 1))
            /\ ~IsAlnum(At(text, i + Len(alias)))
     ELSE TRUE

\* find_alias_matches: the spans of the alias in the text, from the left
find_alias_matches(text, alias) ==
  Only({IF a = <<>> THEN <<>>
        ELSE FindIter([i \in 1..Len(s) |-> IF AliasMatchesAt(s, a, i - 1) THEN Len(a) ELSE 0]) :
          s \in {text}, a \in {alias}})

SignChars == {"u2212", "-", "+"}

\* the end of the exponent part  \s*[xX]\s*10\s*(?:\^|[-u2212])?\s*sign?\d+
\* that starts at offset f, or f when there is none; signs is the class of
\* the optional sign
PowerExponentEnd(s, f, signs) ==
  LET a == SpaceRunEnd(s, f)
      b == SpaceRunEnd(s, a + 1)
      c == SpaceRunEnd(s, b + 2)
      g == IF At(s, c) \in {"^", "-", "u2212"} THEN c + 1 ELSE c
      h == SpaceRunEnd(s, g)
      k == IF At(s, h) \in signs THEN h + 1 ELSE h
      e == DigitRunEnd(s, k)
  IN  IF At(s, a) \in {"u00d7", "x", "X"} /\ MatchAt(s, <<"1","0">>, b) /\ e > k
        THEN e ELSE f

\* the end of the exponent part  [eE]sign?\d+  that starts at offset f
LetterExponentEnd(s, f, signs) ==
  LET k == IF At(s, f + 1) \in signs THEN f + 2 ELSE f + 1
      e == DigitRunEnd(s, k)
  IN  IF At(s, f) \in {"e", "E"} /\ e > k THEN e ELSE f

\* the end of  \d+(?:[.,]\d+)?(?:exponent)?  that starts at offset d0, or d0
\* when no digit stands there
UnsignedNumberEnd(s, d0, psigns, esigns) ==
  LET d1 == DigitRunEnd(s, d0)
      f == IF At(s, d1) \in {".", ","} /\ IsDigit(At(s, d1 + 1))
             THEN DigitRunEnd(s, d1 + 1) ELSE d1
      p == PowerExponentEnd(s, f, psigns)
  IN  IF d1 = d0 THEN d0
      ELSE IF p > f THEN p
      ELSE LetterExponentEnd(s, f, esigns)

\* NUMBER_TOKEN_REGEX: the length of its match at offset i, 0 for none
NumberTokenLen(s, i) ==
  LET d0 == IF At(s, i) \in SignChars THEN i + 1 ELSE i
      e == UnsignedNumberEnd(s, d0, SignChars, SignChars)
  IN  IF e > d0 THEN e - i ELSE 0

QualifierChars == {"u2248", "~", "<", ">", "u2265", "u2264"}

\* where the run of qualifier glyphs that ends right before offset start
\* begins
QualifierRunStart(s, start) == RunStart(s, start, QualifierChars)

\* RANGE_SEPARATOR_REGEX.fullmatch(between)
IsRangeSeparator(between) ==
  Lower(Strip(between)) \in
    {<<"-">>, <<"u2013">>, <<"u2014">>, <<"~">>, <<"uff5e">>, <<"t","o">>, <<"u81f3">>}

Span(sentence, start, end) == [start |-> start, end |-> end, raw |-> Slice(sentence, start, end)]

RECURSIVE CombineSpans(_, _, _)
\* the second loop of find_numeric_spans, from index i of spans
CombineSpans(sentence, spans, i) ==
  IF i > Len(spans) THEN <<>>
  ELSE IF /\ i + 1 <= Len(spans)
          /\ IsRangeSeparator(Slice(sentence, spans[i].end, spans[i + 1].start))
    THEN <<Span(sentence, spans[i].start, spans[i + 1].end)>>
         \o CombineSpans(sentence, spans, i + 2)
    ELSE <<spans[i]>> \o CombineSpans(sentence, spans, i + 1)

\* the first loop of find_numeric_spans
NumberSpans(sentence) ==
  Only({[k \in 1..Len(tokens) |->
           Span(sentence, QualifierRunStart(sentence, tokens[k][1]), tokens[k][2])] :
          tokens \in {FindIter([i \in 1..Len(sentence) |-> NumberTokenLen(sentence, i - 1)])}})

find_numeric_spans(sentence) ==
  Only({CombineSpans(s, spans, 1) : s \in {sentence}, spans \in {NumberSpans(sentence)}})

\* select_closest_span without the test for claimed spans
select_closest_span_reusing(alias_start, alias_end, spans, used) ==
  Only({IF Len(spans) = 0 THEN 0
        ELSE CHOOSE idx \in 1..Len(spans) :
               \A o \in 1..Len(spans) :
                 distance[idx] < distance[o] \/ (distance[idx] = distance[o] /\ idx <= o) :
    distance \in {[idx \in 1..Len(spans) |->
                    Min({Abs(alias_start - spans[idx].start), Abs(alias_end - spans[idx].end)})
                      + (IF spans[idx].start >= alias_end THEN 0 ELSE 10000)]}})

\* select_closest_span: the index (from 1) of the span chosen, 0 for None
select_closest_span(alias_start, alias_end, spans, used) ==
  Only({IF free = {} THEN 0
        ELSE CHOOSE idx \in free :
               \A o \in free : distance[idx] < distance[o] \/ (distance[idx] = distance[o] /\ idx <= o) :
    free \in {{idx \in 1..Len(spans) : idx \notin Range(used)}},
    distance \in {[idx \in 1..Len(spans) |->
                    Min({Abs(alias_start - spans[idx].start), Abs(alias_end - spans[idx].end)})
                      + (IF spans[idx].start >= alias_end THEN 0 ELSE 10000)]}})

---------------------------------------------------------------------------
(* Units of a span: detect_unit_for_span, normalize_measurement_values     *)

\* the character class of UNIT_TOKEN
UnitTokenChars ==
  AsciiLetters \cup DigitChars
    \cup {"u00b0", "/", "%", "u03bc", "u00b7", "^", ".", "-"}

\* re.match(r"\s*(?P<unit>UNIT_TOKEN)", s[end:]): the unit text, <<>> for no
\* match
UnitTokenAfter(s, end) ==
  Only({Slice(s, u0, RunEnd(s, u0, UnitTokenChars)) : u0 \in {SpaceRunEnd(s, end)}})

\* re.search(r"(?P<unit>UNIT_TOKEN)\s*$", s[:start]): the unit text, <<>>
\* for no match
UnitTokenBefore(s, start) ==
  Only({Slice(s, RunStart(s, b1, UnitTokenChars), b1) :
          b1 \in {Max({p \in 0..start : p = 0 \/ ~IsSpace(s[p])})}})

\* whether detect_unit_for_span accepts the canonical unit for the field
UnitAccepted(canonical, meta) ==
  /\ canonical # None
  /\ \/ meta.allowed_units = <<>>
     \/ canonical \in Range(meta.allowed_units)
     \/ canonical = meta.default_unit

\* the decision with the default unit put in the place of a unit the field
\* does not accept
UnitDecisionDefault(raw_unit, meta) ==
  Only({IF UnitAccepted(canonical, meta)
          THEN [canonical |-> canonical, raw_unit |-> raw_unit]
          ELSE [canonical |-> meta.default_unit, raw_unit |-> raw_unit] :
        canonical \in {canonicalize_unit(raw_unit)}})

\* the decision detect_unit_for_span takes on the unit text it matched
UnitDecision(raw_unit, meta) ==
  Only({IF UnitAccepted(canonical, meta)
          THEN [canonical |-> canonical, raw_unit |-> raw_unit]
          ELSE [canonical |-> None, raw_unit |-> raw_unit] :
        canonical \in {canonicalize_unit(raw_unit)}})

\* the unit text detect_unit_for_span decides on: the token after the
\* span, else the token before it, else <<>>
AdjacentUnit(sentence, start, end) ==
  Only({IF after # <<>> THEN after ELSE UnitTokenBefore(sentence, start) :
          after \in {UnitTokenAfter(sentence, end)}})

\* detect_unit_for_span: [canonical, raw_unit], raw_unit <<>> for None
detect_unit_for_span(sentence, start, end, meta) ==
  Only({IF raw_unit = <<>> THEN [canonical |-> meta.default_unit, raw_unit |-> <<>>]
        ELSE UnitDecision(raw_unit, meta) :
          raw_unit \in {AdjacentUnit(sentence, start, end)}})

\* UNIT_CONVERTERS[unit_type]["base"]
ConverterBase(unit_type) ==
  CASE unit_type = "temperature" -> "degC"
    [] unit_type = "time" -> "min"
    [] unit_type = "stress" -> "MPa"
    [] unit_type = "fraction" -> "wt.%"
    [] unit_type = "percent" -> "%"
    [] unit_type = "energy_density" -> "kJ/m^2"
    [] unit_type = "energy" -> "J"
    [] unit_type = "cooling_rate" -> "degC/s"
    [] unit_type = "length" -> "um"
    [] unit_type = "hardness" -> None

\* the units UNIT_CONVERTERS[unit_type]["to_base"] has a converter for
ConverterUnits(unit_type) ==
  CASE unit_type = "temperature" -> {"degC", "K", "degF"}
    [] unit_type = "time" -> {"min", "h", "s"}
    [] unit_type = "stress" -> {"MPa", "GPa", "Pa", "kPa"}
    [] unit_type = "fraction" -> {"wt.%", "%", "at.%"}
    [] unit_type = "percent" -> {"%"}
    [] unit_type = "energy_density" -> {"kJ/m^2", "J/cm^2"}
    [] unit_type = "energy" -> {"J", "kJ"}
    [] unit_type = "cooling_rate" -> {"degC/s", "degC/min"}
    [] unit_type = "length" -> {"um", "mm"}
    [] unit_type = "hardness" -> {}

UnitTypes ==
  {"temperature", "time", "stress", "fraction", "percent", "energy_density",
   "energy", "cooling_rate", "length", "hardness"}

\* UNIT_CONVERTERS[unit_type]["to_base"][unit](v)
ToBase(unit_type, unit, v) ==
  CASE unit_type = "temperature" /\ unit = "K" -> RatSub(v, Rat(27315, 100))
    [] unit_type = "temperature" /\ unit = "degF" -> RatDiv(RatSub(v, RatInt(32)), Rat(18, 10))
    [] unit_type = "time" /\ unit = "h" -> RatMul(v, RatInt(60))
    [] unit_type = "time" /\ unit = "s" -> RatDiv(v, RatInt(60))
    [] unit_type = "stress" /\ unit = "GPa" -> RatMul(v, RatInt(1000))
    [] unit_type = "stress" /\ unit = "Pa" -> RatDiv(v, RatInt(1000000))
    [] unit_type = "stress" /\ unit = "kPa" -> RatDiv(v, RatInt(1000))
    [] unit_type = "energy_density" /\ unit = "J/cm^2" -> RatMul(v, RatInt(10))
    [] unit_type = "energy" /\ unit = "kJ" -> RatMul(v, RatInt(1000))
    [] unit_type = "cooling_rate" /\ unit = "degC/min" -> RatDiv(v, RatInt(60))
    [] unit_type = "length" /\ unit = "mm" -> RatMul(v, RatInt(1000))
    [] OTHER -> v

NoValues ==
  [ok |-> FALSE, value |-> RatInt(0), unit |-> None, has_range |-> FALSE,
   range |-> <<RatInt(0), RatInt(0)>>, warning |-> <<>>]

\* a warning normalize_measurement_values logs: its kind and the unit its
\* message names, either a unit text or a canonical unit
UnitWarning(kind, raw_unit, canonical) ==
  <<[kind |-> kind, raw_unit |-> raw_unit, canonical |-> canonical]>>

\* the value converted to the base unit, the range left as it was written
ConvertedValueOnly(parsed, unit_type, source_unit) ==
  [ok |-> TRUE,
   value |-> ToBase(unit_type, source_unit, parsed.value),
   unit |-> ConverterBase(unit_type),
   has_range |-> parsed.has_range,
   range |-> parsed.range,
   warning |-> <<>>]

\* the values converted to the base unit of the unit type
ConvertedValues(parsed, unit_type, source_unit) ==
  [ok |-> TRUE,
   value |-> ToBase(unit_type, source_unit, parsed.value),
   unit |-> ConverterBase(unit_type),
   has_range |-> parsed.has_range,
   range |-> [k \in 1..2 |->
                IF parsed.has_range THEN ToBase(unit_type, source_unit, parsed.range[k])
                ELSE parsed.range[k]],
   warning |-> <<>>]

\* normalize_measurement_values: the value, unit and range of the
\* Measurement, or ok = FALSE for None with the warning it logs
normalize_measurement_values(parsed, canonical_unit, raw_unit, meta) ==
  LET canonical == IF canonical_unit = None /\ meta.default_unit # None
                     THEN meta.default_unit ELSE canonical_unit
      source_unit == IF canonical # None THEN canonical ELSE ConverterBase(meta.unit_type)
  IN  IF raw_unit # <<>> /\ canonical_unit = None
        THEN [NoValues EXCEPT !.warning = UnitWarning("unrecognized_unit", raw_unit, None)]
      ELSE IF meta.allowed_units # <<>> /\ canonical \notin Range(meta.allowed_units)
        THEN [NoValues EXCEPT !.warning = UnitWarning("unit_not_allowed", <<>>, canonical)]
      ELSE IF meta.unit_type \in UnitTypes
        THEN IF /\ source_unit \notin ConverterUnits(meta.unit_type)
                /\ source_unit # ConverterBase(meta.unit_type)
               THEN [NoValues EXCEPT !.warning =
                       UnitWarning("unit_not_convertible", raw_unit,
                                   IF raw_unit # <<>> THEN None ELSE canonical)]
               ELSE ConvertedValues(parsed, meta.unit_type, source_unit)
      ELSE [ok |-> TRUE, value |-> parsed.value,
            unit |-> IF canonical # None THEN canonical ELSE meta.default_unit,
            has_range |-> parsed.has_range, range |-> parsed.range, warning |-> <<>>]

---------------------------------------------------------------------------
(* Measurements and the steps of extract_schema_from_sentences             *)

\* results = {field: [] for field in schema}
EmptyResults(fields) == [k \in 1..Len(fields) |-> <<>>]

\* a numeric Measurement that carries the label of the rule pass whatever
\* the caller's label is
RuleLabelledMeasurement(field, parsed, norm, raw, method, sentence, trigger, with_qualifiers) ==
  [field |-> field, value_type |-> "numeric", value |-> norm.value, category |-> None,
   unit |-> norm.unit, raw |-> Strip(raw),
   has_range |-> norm.has_range, range |-> norm.range,
   method |-> "rule_regex", sentence |-> sentence, trigger |-> trigger, page |-> None,
   has_qualifiers |-> with_qualifiers /\ (parsed.approximate \/ parsed.operator # None),
   approximate |-> with_qualifiers /\ parsed.approximate,
   operator |-> IF with_qualifiers THEN parsed.operator ELSE None]

\* the dictionary a numeric Measurement is emitted as; with_qualifiers tells
\* whether the caller copies parsed["qualifiers"] into the metadata
NumericMeasurement(field, parsed, norm, raw, method, sentence, trigger, with_qualifiers) ==
  [field |-> field, value_type |-> "numeric", value |-> norm.value, category |-> None,
   unit |-> norm.unit, raw |-> Strip(raw),
   has_range |-> norm.has_range, range |-> norm.range,
   method |-> method, sentence |-> sentence, trigger |-> trigger, page |-> None,
   has_qualifiers |-> with_qualifiers /\ (parsed.approximate \/ parsed.operator # None),
   approximate |-> with_qualifiers /\ parsed.approximate,
   operator |-> IF with_qualifiers THEN parsed.operator ELSE None]

\* the choices of a categorical field as (canonical, token) pairs in the
\* order extract_categorical_measurement tries them
ChoiceTokens(meta) ==
  Flatten([c \in 1..Len(meta.choices) |->
             [t \in 1..Len(meta.choices[c].tokens) |->
                [canonical |-> meta.choices[c].canonical, token |-> meta.choices[c].tokens[t]]]])

\* the last choice whose token the sentence contains, <<>> for none: the
\* scan of the choices without its early return
LastChoice(sentence, meta) ==
  Only({Only({IF found = {} THEN <<>> ELSE <<choices[Max(found)]>> :
                found \in {{k \in 1..Len(choices) : Contains(lowered, Lower(choices[k].token))}}}) :
          choices \in {ChoiceTokens(meta)}, lowered \in {Lower(sentence)}})

\* the first choice whose token the sentence contains, <<>> for none
FirstChoice(sentence, meta) ==
  Only({Only({IF found = {} THEN <<>> ELSE <<choices[Min(found)]>> :
                found \in {{k \in 1..Len(choices) : Contains(lowered, Lower(choices[k].token))}}}) :
          choices \in {ChoiceTokens(meta)}, lowered \in {Lower(sentence)}})

\* a categorical Measurement without its metadata dictionary
extract_categorical_bare(sentence, field, meta, method, matches, hit) ==
  [field |-> field, value_type |-> "categorical", value |-> RatInt(0),
   category |-> hit.canonical, unit |-> meta.default_unit, raw |-> hit.token,
   has_range |-> FALSE, range |-> <<RatInt(0), RatInt(0)>>,
   has_qualifiers |-> FALSE, approximate |-> FALSE, operator |-> None]

\* extract_categorical_measurement for the choice it finds
extract_categorical_measurement(sentence, field, meta, method, matches, hit) ==
  [field |-> field, value_type |-> "categorical", value |-> RatInt(0),
   category |-> hit.canonical, unit |-> meta.default_unit, raw |-> hit.token,
   has_range |-> FALSE, range |-> <<RatInt(0), RatInt(0)>>,
   method |-> method, sentence |-> Strip(sentence), trigger |-> matches[1].alias,
   page |-> None, has_qualifiers |-> FALSE, approximate |-> FALSE, operator |-> None]

\* the context gate left open: every field is eligible in every sentence
ContextIgnored(sentence, meta) == TRUE

\* whether the sentence passes the context gate of the field
ContextAllows(sentence, meta) ==
  \/ meta.context = <<>>
  \/ Only({\E k \in 1..Len(meta.context) : Contains(lowered, Lower(meta.context[k])) :
             lowered \in {Lower(sentence)}})

\* the occurrences of one alias as (alias, span) pairs
AliasSpans(text, alias) ==
  Only({[j \in 1..Len(found) |-> [alias |-> alias, start |-> found[j][1], end |-> found[j][2]]] :
          found \in {find_alias_matches(text, alias)}})

\* the (alias, span) pairs of a field in a text: aliases in schema order,
\* the occurrences of each from the left
AliasMatches(text, meta) ==
  Flatten([k \in 1..Len(meta.aliases) |-> AliasSpans(text, meta.aliases[k])])

\* a warning logged: its kind, the field its message names (None when it
\* names none), the text it shows and, where it shows a canonical unit
\* instead, that unit
Warning(kind, field, text, unit) == [kind |-> kind, field |-> field, text |-> text, unit |-> unit]

\* the warnings normalize_measurement_values logged for a field
UnitWarnings(norm, field) ==
  [k \in 1..Len(norm.warning) |->
     Warning(norm.warning[k].kind, field, norm.warning[k].raw_unit, norm.warning[k].canonical)]

Sentence == sentences[si]
Meta == schema[fi]

\* for sentence in sentences: the loop is over
ReturnResults ==
  /\ pc = "sentence"
  /\ si > Len(sentences)
  /\ pc' = "done"
  /\ UNCHANGED <<callVars, inputVars, sentVars, compVars, loopVars, outVars>>

\* if not sentence.strip(): continue
SkipBlankSentence ==
  /\ pc = "sentence"
  /\ si <= Len(sentences)
  /\ Strip(Sentence) = <<>>
  /\ si' = si + 1
  /\ UNCHANGED <<pc, numeric_spans, used_indices>>
  /\ UNCHANGED <<callVars, inputVars, compVars, loopVars, outVars>>

\* for field, meta in schema.items(): the loop starts
EnterSentence ==
  /\ pc = "sentence"
  /\ si <= Len(sentences)
  /\ Strip(Sentence) # <<>>
  /\ pc' = "field"
  /\ fi' = 1
  /\ UNCHANGED <<ai, alias_matches>>
  /\ UNCHANGED <<callVars, inputVars, sentVars, compVars, outVars>>

\* the loop over the fields is over: the next sentence
LeaveSentence ==
  /\ pc = "field"
  /\ fi > Len(schema)
  /\ pc' = "sentence"
  /\ si' = si + 1
  /\ UNCHANGED <<numeric_spans, used_indices>>
  /\ UNCHANGED <<callVars, inputVars, compVars, loopVars, outVars>>

\* the field is done with the sentence: continue
NextField ==
  /\ fi' = fi + 1
  /\ UNCHANGED <<pc, ai, alias_matches, sentVars>>

\* the body of the loop over the fields down to the loop over the alias
\* occurrences: the context gate, the alias occurrences, the categorical
\* branch, the numeric spans
VisitField ==
  /\ pc = "field"
  /\ fi <= Len(schema)
  /\ \E sentence \in {Sentence}, meta \in {Meta} :
       IF ~ContextAllows(sentence, meta)
         THEN NextField /\ UNCHANGED outVars
       ELSE \E matches \in {AliasMatches(sentence, meta)} :
         IF matches = <<>>
           THEN NextField /\ UNCHANGED outVars
         ELSE IF meta.categorical
           THEN /\ \E choice \in {FirstChoice(sentence, meta)} :
                     IF choice # <<>>
                       THEN /\ results' = [results EXCEPT ![fi] = Append(@,
                                 extract_categorical_measurement(sentence, meta.field, meta,
                                                                 method_label, matches, choice[1]))]
                            /\ UNCHANGED warnings
                       ELSE /\ warnings' = Append(warnings,
                                 Warning("no_category", meta.field, sentence, None))
                            /\ UNCHANGED results
                /\ NextField
         ELSE \E spans \in {find_numeric_spans(sentence)} :
           IF spans = <<>>
             THEN /\ warnings' = Append(warnings, Warning("no_number", None, sentence, None))
                  /\ UNCHANGED results
                  /\ NextField
             ELSE /\ alias_matches' = matches
                  /\ numeric_spans' = spans
                  /\ used_indices' = <<>>
                  /\ ai' = 1
                  /\ pc' = "alias"
                  /\ UNCHANGED <<si, fi, outVars>>
  /\ UNCHANGED <<callVars, inputVars, compVars>>

\* the loop over the alias occurrences is over: the next field
LeaveAliases ==
  /\ pc = "alias"
  /\ ai > Len(alias_matches)
  /\ pc' = "field"
  /\ fi' = fi + 1
  /\ UNCHANGED <<ai, alias_matches>>
  /\ UNCHANGED <<callVars, inputVars, sentVars, compVars, outVars>>

\* the alias occurrence at hand
AliasMatch == alias_matches[ai]

\* VisitAlias with the span claimed only when its Measurement is emitted
VisitAliasClaimingOnSuccess ==
  /\ pc = "alias"
  /\ ai <= Len(alias_matches)
  /\ \E idx \in {select_closest_span(AliasMatch.start, AliasMatch.end,
                                     numeric_spans, used_indices)} :
       IF idx = 0
         THEN UNCHANGED <<used_indices, outVars>>
       ELSE
         \E meta \in {Meta}, numeric_span \in {numeric_spans[idx]} :
            \E parsed \in {parse_numeric_expression(numeric_span.raw)} :
              IF ~parsed.ok
                THEN /\ warnings' = Append(warnings,
                          Warning("unparseable_number", None, numeric_span.raw, None))
                     /\ UNCHANGED <<results, used_indices>>
              ELSE
                \E unit \in {detect_unit_for_span(Sentence, numeric_span.start,
                                                  numeric_span.end, meta)} :
                \E normalized \in {normalize_measurement_values(parsed, unit.canonical,
                                                                unit.raw_unit, meta)} :
                  IF ~normalized.ok
                    THEN /\ warnings' = warnings \o UnitWarnings(normalized, meta.field)
                         /\ UNCHANGED <<results, used_indices>>
                    ELSE /\ results' = [results EXCEPT ![fi] = Append(@,
                              NumericMeasurement(meta.field, parsed, normalized,
                                                 numeric_span.raw, method_label,
                                                 Strip(Sentence), AliasMatch.alias, TRUE))]
                         /\ used_indices' = Append(used_indices, idx)
                         /\ UNCHANGED warnings
  /\ ai' = ai + 1
  /\ UNCHANGED <<pc, si, fi, alias_matches, numeric_spans>>
  /\ UNCHANGED <<callVars, inputVars, compVars>>

\* the body of the loop over the alias occurrences: the closest free span,
\* its number, its unit, the Measurement
VisitAlias ==
  /\ pc = "alias"
  /\ ai <= Len(alias_matches)
  /\ \E idx \in {select_closest_span(AliasMatch.start, AliasMatch.end,
                                     numeric_spans, used_indices)} :
       IF idx = 0
         THEN UNCHANGED <<used_indices, outVars>>
       ELSE
         /\ used_indices' = Append(used_indices, idx)
         /\ \E meta \in {Meta}, numeric_span \in {numeric_spans[idx]} :
            \E parsed \in {parse_numeric_expression(numeric_span.raw)} :
              IF ~parsed.ok
                THEN /\ warnings' = Append(warnings,
                          Warning("unparseable_number", None, numeric_span.raw, None))
                     /\ UNCHANGED results
              ELSE
                \E unit \in {detect_unit_for_span(Sentence, numeric_span.start,
                                                  numeric_span.end, meta)} :
                \E normalized \in {normalize_measurement_values(parsed, unit.canonical,
                                                                unit.raw_unit, meta)} :
                  IF ~normalized.ok
                    THEN /\ warnings' = warnings \o UnitWarnings(normalized, meta.field)
                         /\ UNCHANGED results
                    ELSE /\ results' = [results EXCEPT ![fi] = Append(@,
                              NumericMeasurement(meta.field, parsed, normalized,
                                                 numeric_span.raw, method_label,
                                                 Strip(Sentence), AliasMatch.alias, TRUE))]
                         /\ UNCHANGED warnings
  /\ ai' = ai + 1
  /\ UNCHANGED <<pc, si, fi, alias_matches, numeric_spans>>
  /\ UNCHANGED <<callVars, inputVars, compVars>>

\* extract_schema_from_sentences, step by step
ExtractSchemaStep ==
  \/ ReturnResults \/ SkipBlankSentence \/ EnterSentence \/ LeaveSentence
  \/ VisitField \/ LeaveAliases \/ VisitAlias

---------------------------------------------------------------------------
(* extract_composition                                                     *)

SENTENCE_DELIMITERS ==
  {"u3002", ".", "!", "uff01", "?", "uff1f", ";", "uff1b", "u000a"}

\* get_sentence_context: the text between the delimiters around a span
get_sentence_context(text, start, end) ==
  Only({IF snippet # <<>> THEN snippet
        ELSE Strip(Slice(text, Max({0, start - 50}), Min({Len(text), end + 50}))) :
    snippet \in {Strip(Slice(text,
      Max({0} \cup {p \in 1..start : text[p] \in SENTENCE_DELIMITERS}),
      Min({Len(text)} \cup {p \in end..(Len(text) - 1) : text[p + 1] \in SENTENCE_DELIMITERS})))}})

\* the width of the window extract_composition searches on either side
SearchWindow == 80

ValueQualifiers == {"<", "u2265", "u2264", ">", "~", "u2248"}

\* the length of the range separator of VALUE_TOKEN_PATTERN at offset a
ValueSeparatorLen(s, a) ==
  IF At(s, a) \in {"-", "u2013", "u2014", "~", "uff5e", "u81f3"} THEN 1
  ELSE IF MatchAtIgnoreCase(s, <<"t","o">>, a) THEN 2
  ELSE 0

\* the end of  -?\d+(?:[.,]\d+)?(?:exponent)?  at offset b, or b for none
ValueNumberEnd(s, b) ==
  Only({IF e > d0 THEN e ELSE b :
          d0 \in {IF At(s, b) = "-" THEN b + 1 ELSE b},
          e \in {UnsignedNumberEnd(s, IF At(s, b) = "-" THEN b + 1 ELSE b,
                                   {"-"}, {"-", "u2212", "+"})}})

RECURSIVE ValueRangeEnd(_, _)
\* the end of the repeated  \s*separator\s*number  after offset e
ValueRangeEnd(s, e) ==
  Only({IF ValueSeparatorLen(s, a) = 0 THEN e
        ELSE Only({Only({IF e2 = b THEN e ELSE ValueRangeEnd(s, e2) :
                           e2 \in {ValueNumberEnd(s, b)}}) :
                     b \in {SpaceRunEnd(s, a + ValueSeparatorLen(s, a))}}) :
        a \in {SpaceRunEnd(s, e)}})

\* VALUE_TOKEN_PATTERN: the end of its match at offset i, -1 for none
ValueTokenEnd(s, i) ==
  Only({Only({IF i < Len(s) /\ e > w THEN ValueRangeEnd(s, e) ELSE -1 :
                e \in {ValueNumberEnd(s, w)}}) :
          w \in {SpaceRunEnd(s, IF At(s, i) \in ValueQualifiers THEN i + 1 ELSE i)}})

\* the class of UNIT_TOKEN under re.IGNORECASE: the micro sign and capital
\* mu match the small mu, the Kelvin sign k, the long s the letter s
UnitTokenCharsIgnoreCase == UnitTokenChars \cup {"u00b5", "u039c", "u212a", "u017f"}

\* the match of the value-and-unit pattern whose value group spans
\* s[i:vend]: the value group, the unit group (<<>> when it did not take
\* part) and the end of the match
ValueMatch(s, i, vend) ==
  Only({Only({[start |-> i, end |-> vend, raw |-> Slice(s, i, vend),
               unit |-> Slice(s, u0, u1), stop |-> IF u1 > u0 THEN u1 ELSE vend] :
                u1 \in {RunEnd(s, u0, UnitTokenCharsIgnoreCase)}}) :
          u0 \in {SpaceRunEnd(s, vend)}})

\* the matches of the value-and-unit pattern at each offset of the segment
ValueMatches(segment) ==
  Only({[i \in 1..Len(s) |->
           Only({IF vend < 0 THEN <<>> ELSE <<ValueMatch(s, i - 1, vend)>> :
                   vend \in {ValueTokenEnd(s, i - 1)}})] :
          s \in {segment}})

\* a match of the pattern in text[lo:], with the offsets into text
Shifted(m, lo) == [m EXCEPT !.start = lo + @, !.end = lo + @, !.stop = lo + @]

\* re.search of the pattern in text[lo:hi]: the leftmost match, or
\* re.finditer of it: the last of the matches taken from the left; <<>> for
\* none
SearchValue(text, lo, hi, last) ==
  Only({Only({IF found = <<>> THEN <<>>
              ELSE <<Shifted(at[(IF last THEN found[Len(found)][1] ELSE found[1][1]) + 1][1], lo)>> :
                found \in {FindIter([i \in DOMAIN at |->
                                       IF at[i] = <<>> THEN 0 ELSE at[i][1].stop - (i - 1)])}}) :
          at \in {ValueMatches(Slice(text, lo, hi))}})

Element == schema[fi]

\* return results
ReturnComposition ==
  /\ pc = "element"
  /\ fi > Len(schema)
  /\ pc' = "done"
  /\ UNCHANGED <<callVars, inputVars, sentVars, compVars, loopVars, outVars>>

\* VisitElement with one seen_spans set for the module instead of one for
\* each element of each call
VisitElementSharedSpans ==
  /\ pc = "element"
  /\ fi <= Len(schema)
  /\ \E matches \in {AliasMatches(comp_text, Element)} :
       IF matches = <<>>
         THEN /\ fi' = fi + 1
              /\ UNCHANGED <<pc, ai, alias_matches, seen_spans>>
         ELSE /\ alias_matches' = matches
              /\ ai' = 1
              /\ pc' = "after"
              /\ UNCHANGED <<fi, seen_spans>>
  /\ UNCHANGED <<callVars, inputVars, sentVars, value_match, outVars>>

\* for element, meta in COMPOSITION_FIELDS.items(): seen_spans = set(), and
\* the occurrences of the aliases in the text
VisitElement ==
  /\ pc = "element"
  /\ fi <= Len(schema)
  /\ \E matches \in {AliasMatches(comp_text, Element)} :
       IF matches = <<>>
         THEN /\ fi' = fi + 1
              /\ UNCHANGED <<pc, ai, alias_matches, seen_spans>>
         ELSE /\ alias_matches' = matches
              /\ seen_spans' = {}
              /\ ai' = 1
              /\ pc' = "after"
              /\ UNCHANGED fi
  /\ UNCHANGED <<callVars, inputVars, sentVars, value_match, outVars>>

\* the occurrences of the element's aliases are done: the next element
LeaveElement ==
  /\ pc = "after"
  /\ ai > Len(alias_matches)
  /\ pc' = "element"
  /\ fi' = fi + 1
  /\ UNCHANGED <<ai, alias_matches>>
  /\ UNCHANGED <<callVars, inputVars, sentVars, compVars, outVars>>

\* if match and (value_start, value_end) not in seen_spans: the value is
\* taken; otherwise this side of the alias occurrence is done
TakeUnseen(found, value_pc, next_pc, next_ai) ==
  IF found = <<>> \/ <<found[1].start, found[1].end>> \in seen_spans
    THEN /\ pc' = next_pc
         /\ ai' = next_ai
         /\ UNCHANGED <<seen_spans, value_match>>
    ELSE /\ seen_spans' = seen_spans \cup {<<found[1].start, found[1].end>>}
         /\ value_match' = found[1]
         /\ pc' = value_pc
         /\ UNCHANGED ai

\* the search in the window after the alias occurrence
SearchAfter ==
  /\ pc = "after"
  /\ ai <= Len(alias_matches)
  /\ \E found \in {SearchValue(comp_text, alias_matches[ai].end,
                               alias_matches[ai].end + SearchWindow, FALSE)} :
       TakeUnseen(found, "after_value", "before", ai)
  /\ UNCHANGED <<callVars, inputVars, sentVars, fi, alias_matches, outVars>>

\* the search in the window before the alias occurrence
SearchBefore ==
  /\ pc = "before"
  /\ \E found \in {SearchValue(comp_text, Max({0, alias_matches[ai].start - SearchWindow}),
                               alias_matches[ai].start, TRUE)} :
       TakeUnseen(found, "before_value", "after", ai + 1)
  /\ UNCHANGED <<callVars, inputVars, sentVars, fi, alias_matches, outVars>>

\* what either side does with the value it takes: the number, the unit, the
\* Measurement
TakeValue ==
  /\ pc \in {"after_value", "before_value"}
  /\ \E meta \in {Element}, parsed \in {parse_numeric_expression(value_match.raw)} :
       IF ~parsed.ok
         THEN UNCHANGED outVars
       ELSE
         \E canonical \in {IF value_match.unit # <<>>
                             THEN canonicalize_unit(value_match.unit) ELSE None} :
         \E normalized \in {normalize_measurement_values(parsed, canonical,
                                                         value_match.unit, meta)} :
           IF ~normalized.ok
             THEN /\ warnings' = warnings \o UnitWarnings(normalized, meta.field)
                  /\ UNCHANGED results
             ELSE /\ results' = [results EXCEPT ![fi] = Append(@,
                       NumericMeasurement(meta.field, parsed, normalized,
                          value_match.raw, "rule_regex",
                          get_sentence_context(comp_text, value_match.start, value_match.end),
                          alias_matches[ai].alias, FALSE))]
                  /\ UNCHANGED warnings
  /\ IF pc = "after_value" THEN pc' = "before" /\ ai' = ai
     ELSE pc' = "after" /\ ai' = ai + 1
  /\ UNCHANGED <<callVars, inputVars, sentVars, compVars, fi, alias_matches>>

\* extract_composition, step by step
ExtractCompositionStep ==
  \/ ReturnComposition \/ VisitElement \/ LeaveElement
  \/ SearchAfter \/ SearchBefore \/ TakeValue


---------------------------------------------------------------------------
(* measurement_key and merge_measurement_groups                            *)

RECURSIVE ScaledDiv(_, _, _)
\* the quotient q and the remainder r of n * 10^k by d, digit by digit
ScaledDiv(n, d, k) ==
  IF k = 0 THEN [q |-> n \div d, r |-> n % d]
  ELSE Only({[q |-> p.q * 10 + ((p.r * 10) \div d), r |-> (p.r * 10) % d] :
               p \in {ScaledDiv(n, d, k - 1)}})

\* round(x, 6): the nearest multiple of 10^-6, a tie to the even one; a
\* float that is not finite is returned as it is
Round6(x) ==
  IF x.d = 0 THEN x
  ELSE Only({Rat((IF x.n < 0 THEN -1 ELSE 1)
                   * (p.q + (IF 2 * p.r > x.d \/ (2 * p.r = x.d /\ p.q % 2 = 1) THEN 1 ELSE 0)),
                 Pow10(6)) :
               p \in {ScaledDiv(Abs(x.n), x.d, 6)}})

\* the key with the metadata in it: entries of different passes never
\* share it
measurement_key_with_method(m) ==
  <<m.field,
    IF m.value_type = "numeric" THEN Round6(m.value) ELSE m.category,
    m.unit,
    IF m.has_range THEN <<Round6(m.range[1]), Round6(m.range[2])>> ELSE <<>>,
    m.raw,
    m.method>>

\* measurement_key: (field, value_key, unit, range_key, raw); a float value
\* rounded, the value of a categorical Measurement as it is, the range_key
\* None written <<>>
measurement_key(m) ==
  <<m.field,
    IF m.value_type = "numeric" THEN Round6(m.value) ELSE m.category,
    m.unit,
    IF m.has_range THEN <<Round6(m.range[1]), Round6(m.range[2])>> ELSE <<>>,
    m.raw>>

RECURSIVE MergeInto(_, _, _)
\* for measurement in measurements: append it to merged[field] unless an
\* entry of merged[field] has its key; from the i-th measurement on
MergeInto(merged, measurements, i) ==
  IF i > Len(measurements) THEN merged
  ELSE MergeInto(IF \E e \in DOMAIN merged :
                      measurement_key(merged[e]) = measurement_key(measurements[i])
                   THEN merged
                   ELSE Append(merged, measurements[i]),
                 measurements, i + 1)

RECURSIVE MergeField(_, _, _)
\* merged[field] after the first g groups; an empty list adds nothing
MergeField(groups, k, g) ==
  IF g = 0 THEN <<>>
  ELSE MergeInto(MergeField(groups, k, g - 1), groups[g][k], 1)

\* merge_measurement_groups(*groups): for every field the merged list, <<>>
\* for a field that has no key in the result
merge_measurement_groups(groups) ==
  [k \in DOMAIN groups[1] |-> MergeField(groups, k, Len(groups))]

---------------------------------------------------------------------------
(* split_sentences and the sections of a result                            *)

\* the characters the pattern of split_sentences looks behind for
SplitDelimiters == {"u3002", ".", "!", "?", "uff1f", "uff1b", ";"}

\* the matches of (?<=[delimiters])\s+ as <<start, end>>, from the left: a
\* run of whitespace that follows a delimiter
SplitMatches(text) ==
  Only({Only({[k \in 1..Len(starts) |-> <<starts[k], SpaceRunEnd(s, starts[k])>>] :
                starts \in {SortedSeq({i \in 1..(Len(s) - 1) :
                                         IsSpace(s[i + 1]) /\ s[i] \in SplitDelimiters})}}) :
          s \in {text}})

\* re.split: the text before, between and after the matches
SplitCandidates(text) ==
  Only({[k \in 1..(Len(cuts) + 1) |->
           Slice(text, IF k = 1 THEN 0 ELSE cuts[k - 1][2],
                       IF k > Len(cuts) THEN Len(text) ELSE cuts[k][1])] :
          cuts \in {SplitMatches(text)}})

\* split_sentences
split_sentences(text) ==
  IF text = <<>> THEN <<>>
  ELSE Only({IF found = <<>> THEN <<Strip(text)>> ELSE found :
               found \in {StrippedNonEmpty(SplitCandidates(text))}})

\* the fields merge_measurement_groups creates a key for: those with a
\* Measurement in some group
MergedKeys(groups) ==
  {k \in DOMAIN groups[1] : \E g \in DOMAIN groups : groups[g][k] # <<>>}

\* a section of a result: the fields it has a key for, and their lists
Section(keys, lists) == [keys |-> keys, lists |-> lists]
---------------------------------------------------------------------------
(* The values of the variables an operation does not use                   *)

IdleCalls ==
  /\ unit_arg = <<>>
  /\ unit_ret = None
  /\ num_src = [kind |-> "none"]
  /\ num_arg = <<>>
  /\ num_text = <<>>
  /\ num_ret = ParseNone

IdleExtraction ==
  /\ src = [kind |-> "none"]
  /\ schema = <<>>
  /\ sentences = <<>>
  /\ method_label = "rule_regex"
  /\ comp_text = <<>>
  /\ si = 1
  /\ fi = 1
  /\ ai = 1
  /\ alias_matches = <<>>
  /\ numeric_spans = <<>>
  /\ used_indices = <<>>
  /\ seen_spans = {}
  /\ value_match = <<>>
  /\ results = <<>>
  /\ warnings = <<>>

---------------------------------------------------------------------------
(* canonicalize_unit applied to one argument                               *)

MaxUnitLen == 3

UnitAlphabet == {"h", "s", "p", "i", "a", "."}

\* every spelling the catalog lists
CatalogSpellings ==
  UNION {Range(Spellings(UNIT_CATALOG[k])) : k \in DOMAIN UNIT_CATALOG}

SampleWords ==
  { <<"s","t","r","e","n","g","t","h">>, <<"h","e","l","l","o">>, <<"k","g">>,
    <<"f","o","r">>, <<"t","i","m","e">>, <<"M","P","a",".">>, <<"M","P","A">>,
    <<" ","m","p","a"," ">>, <<"H","o","u","r","s">>, <<"p","s","i",".">>,
    <<"k","J","u00b7","m","u207b","u00b2">>, <<"u00b0","C","/","m","i","n">> }

UnitInputs ==
  CatalogSpellings \cup SampleWords
    \cup UNION {[1..n -> UnitAlphabet] : n \in 0..MaxUnitLen}

InitUnit ==
  /\ pc = "unit_call"
  /\ unit_arg \in UnitInputs
  /\ unit_ret = None
  /\ num_src = [kind |-> "none"]
  /\ num_arg = <<>>
  /\ num_text = <<>>
  /\ num_ret = ParseNone
  /\ IdleExtraction

CanonicalizeUnit ==
  /\ pc = "unit_call"
  /\ unit_ret' = canonicalize_unit(unit_arg)
  /\ pc' = "unit_done"
  /\ UNCHANGED <<unit_arg, num_src, num_arg, num_text, num_ret>>
  /\ UNCHANGED <<inputVars, sentVars, compVars, loopVars, outVars>>

NextUnit == CanonicalizeUnit

SpecUnit == InitUnit /\ [][NextUnit]_vars

---------------------------------------------------------------------------
(* preprocess_text and parse_numeric_expression applied to one expression  *)

RECURSIVE IntToText(_)
\* the decimal digits of a natural number
IntToText(n) ==
  IF n < 10 THEN <<Digits[n + 1]>> ELSE Append(IntToText(n \div 10), Digits[(n % 10) + 1])

\* a whole number as it is written, a minus sign before a negative one
SignedText(n) == IF n < 0 THEN <<"-">> \o IntToText(-n) ELSE IntToText(n)

SuperscriptDigits ==
  <<"u2070", "u00b9", "u00b2", "u00b3", "u2074", "u2075", "u2076", "u2077", "u2078", "u2079">>

\* a whole number written in superscript glyphs
SuperscriptText(n) ==
  Only({(IF n < 0 THEN <<"u207b">> ELSE <<>>)
          \o [i \in 1..Len(t) |-> SuperscriptDigits[DigitValue(t[i]) + 1]] :
        t \in {IntToText(Abs(n))}})

\* the largest magnitude of a range endpoint
MaxEndpoint == 10
\* the largest mantissa and the largest magnitude of an exponent
MaxMantissa == 5
MaxExponent == 3

RangeSeparators ==
  { <<"-">>, <<" ","-"," ">>, <<" ","t","o"," ">>, <<"~">>, <<"u2013">>, <<"u81f3">> }

\* the spellings of scientific notation: caret, bare exponent (written for
\* negative exponents only), superscript exponent, letter e
SciStyles == {"caret", "bare", "superscript", "e"}

\* m times ten to the n in a spelling
SciText(m, n, style) ==
  CASE style = "caret" -> IntToText(m) \o <<"u00d7","1","0","^">> \o SignedText(n)
    [] style = "bare" -> IntToText(m) \o <<" ","x","1","0">> \o SignedText(n)
    [] style = "superscript" -> IntToText(m) \o <<"u00d7","1","0">> \o SuperscriptText(n)
    [] style = "e" -> IntToText(m) \o <<"e">> \o SignedText(n)

\* the value of m times ten to the n
SciValue(m, n) ==
  IF n >= 0 THEN RatInt(m * Pow10(n)) ELSE Rat(m, Pow10(-n))

\* texts that write no number: empty, blank, qualifiers only, words, and
\* ranges of which an endpoint is no number
NonNumericTexts ==
  { <<>>, <<" ">>, <<"~">>, <<"<">>, <<"u2265">>, <<"~"," ","<","=">>,
    <<"a","b","c">>, <<"M","P","a">>, <<"n","a","n">>, <<"i","n","f">>,
    <<"-","-">>, <<"1",".","2",".","3">>,
    <<"5"," ","t","o"," ","x">>, <<"x","-","5">>, <<"5","~">>,
    <<"5"," ","t","o"," ","n","a","n">> }

NumCases ==
  {[kind |-> "text", a |-> 0, b |-> 0, sep |-> <<>>, style |-> "plain",
    written |-> t] : t \in NonNumericTexts}
  \cup
  {[kind |-> "single", a |-> a, b |-> 0, sep |-> <<>>, style |-> "plain",
    written |-> SignedText(a)] : a \in (-MaxEndpoint)..MaxEndpoint}
  \cup
  {[kind |-> "range", a |-> ab[1], b |-> ab[2], sep |-> sep, style |-> "plain",
    written |-> SignedText(ab[1]) \o sep \o SignedText(ab[2])] :
     ab \in ((-MaxEndpoint)..MaxEndpoint) \X ((-MaxEndpoint)..MaxEndpoint),
     sep \in RangeSeparators}
  \cup
  {[kind |-> "sci", a |-> mn[1], b |-> mn[2], sep |-> <<>>, style |-> style,
    written |-> SciText(mn[1], mn[2], style)] :
     mn \in (1..MaxMantissa) \X ((-MaxExponent)..MaxExponent),
     style \in SciStyles \ {"bare"}}
  \cup
  {[kind |-> "sci", a |-> mn[1], b |-> mn[2], sep |-> <<>>, style |-> "bare",
    written |-> SciText(mn[1], mn[2], "bare")] :
     mn \in (1..MaxMantissa) \X ((-MaxExponent)..(-1))}

InitNum ==
  /\ pc = "num_call"
  /\ num_src \in NumCases
  /\ num_arg = num_src.written
  /\ num_text = <<>>
  /\ num_ret = ParseNone
  /\ unit_arg = <<>>
  /\ unit_ret = None
  /\ IdleExtraction

\* normalized_text = preprocess_text(text)
PreprocessText ==
  /\ pc = "num_call"
  /\ num_text' = preprocess_text(num_arg)
  /\ pc' = "num_parse"
  /\ UNCHANGED <<unit_arg, unit_ret, num_src, num_arg, num_ret>>
  /\ UNCHANGED <<inputVars, sentVars, compVars, loopVars, outVars>>

\* parsed = parse_numeric_expression(raw)
ParseNumericExpression ==
  /\ pc = "num_parse"
  /\ num_ret' = parse_numeric_expression(num_text)
  /\ pc' = "num_done"
  /\ UNCHANGED <<unit_arg, unit_ret, num_src, num_arg, num_text>>
  /\ UNCHANGED <<inputVars, sentVars, compVars, loopVars, outVars>>

NextNum == PreprocessText \/ ParseNumericExpression

SpecNum == InitNum /\ [][NextNum]_vars

---------------------------------------------------------------------------
(* extract_schema_from_sentences applied to the sentences of one text      *)

\* the schema a name stands for
Schema(name) ==
  CASE name = "composition" -> COMPOSITION_FIELDS
    [] name = "heat_treatment" -> HEAT_TREATMENT_FIELDS
    [] name = "mechanical_properties" -> MECHANICAL_PROPERTY_FIELDS
    [] name = "microstructure" -> MICROSTRUCTURE_FIELDS

SentenceSchemas == {"heat_treatment", "mechanical_properties", "microstructure"}

\* the phrases are written with the numbers 1..MaxNumber
MaxNumber == 2

\* the phrases are written with the first MaxAliases aliases of a field
MaxAliases == 4

\* unit texts that belong to no unit of the field: unknown units, units of
\* another kind, a full stop, nothing
ForeignUnitTexts ==
  { <<>>, <<".">>, <<"p","s","i">>, <<"k","s","i">>, <<"k","g">>,
    <<"M","P","a">>, <<"h">>, <<"%">>, <<"u00b0","C">>, <<"H","V">> }

\* the units a field accepts
FieldUnits(meta) == Range(meta.allowed_units) \cup ({meta.default_unit} \ {None})

\* every spelling the catalog lists for the units a field accepts
FieldUnitTexts(meta) ==
  UNION {Range(Spellings(UNIT_CATALOG[k])) :
           k \in {j \in DOMAIN UNIT_CATALOG : UNIT_CATALOG[j].canonical \in FieldUnits(meta)}}

\* the units of the catalog a spelling is listed for
WrittenUnits(unit_text) ==
  {UNIT_CATALOG[k].canonical :
     k \in {j \in DOMAIN UNIT_CATALOG : unit_text \in Range(Spellings(UNIT_CATALOG[j]))}}

\* the numeric fields of the schemas
NumericFields ==
  UNION {{[schema |-> sc.name, index |-> k, meta |-> sc.fields[k]] :
            k \in {j \in DOMAIN sc.fields : ~sc.fields[j].categorical}} :
         sc \in {[name |-> name, fields |-> Schema(name)] : name \in SentenceSchemas}}

\* a phrase: an alias of a field, a number, a unit text
Phrase(f, alias, number, unit_text) ==
  [kind |-> "phrase", schema |-> f.schema, index |-> f.index, field |-> f.meta.field,
   alias |-> alias, number |-> number, unit_text |-> unit_text,
   sentences |-> <<alias \o <<" ">> \o IntToText(number)
                     \o (IF unit_text = <<>> THEN <<>> ELSE <<" ">> \o unit_text)>>]

PhraseCases ==
  UNION {{Phrase(f, f.meta.aliases[a], number, unit_text) :
            a \in {j \in DOMAIN f.meta.aliases : j <= MaxAliases},
            number \in 1..MaxNumber,
            unit_text \in FieldUnitTexts(f.meta) \cup ForeignUnitTexts} :
         f \in NumericFields}

\* texts of several sentences
Passage(name, texts) ==
  [kind |-> "passage", schema |-> name, index |-> 0, field |-> None, alias |-> <<>>,
   number |-> 0, unit_text |-> <<>>, sentences |-> texts]

PassageCases ==
  { Passage("heat_treatment",
      << <<" "," ">>,
         <<"Q","u","e","n","c","h","e","d"," ","i","n"," ","w","a","t","e","r",".">>,
         <<"t","e","m","p","e","r","e","d"," ","a","t"," ","2","0","0"," ","u00b0","C",
           " ","f","o","r"," ","2"," ","h",".">> >>),
    Passage("heat_treatment",
      << <<"q","u","e","n","c","h","e","d"," ","i","n"," ","b","r","i","n","e">>,
         <<"t","h","e"," ","c","o","o","l","i","n","g"," ","r","a","t","e"," ","w","a","s",
           " ","h","i","g","h">> >>),
    Passage("mechanical_properties",
      << <<"y","i","e","l","d"," ","s","t","r","e","n","g","t","h"," ","5","x","1","0","-","1",
           " ","M","P","a">>,
         <<"U","T","S"," ","9","0","0"," ","-"," ","9","5","0"," ","M","P","a">> >>),
    Passage("mechanical_properties",
      << <<"h","a","r","d","n","e","s","s"," ","H","V"," ","4","5","0">>,
         <<"4","5"," ","J"," ","i","m","p","a","c","t"," ","t","o","u","g","h","n","e","s","s">>,
         <<"U","T","S"," ","a","n","d"," ","R","m"," ","9","0","0"," ","M","P","a">> >>),
    Passage("mechanical_properties",
      << <<"U","T","S"," ",">",">","5"," ","p","s","i">>,
         <<"R","m"," ","u2248","9","0","0"," ","k","s","i",","," ","Y","S"," ","u2265","6","0","0",
           " ","M","P","a">> >>),
    Passage("mechanical_properties",
      <<
         <<"U", "T", "S", " ", "9", "0", "0", " ", "M", "P", "a", ",", " ", "R", "m",
           " ", "9", "5", "0", " ", "M", "P", "a" >>,
         <<"U","T","S"," ","R","m"," ","5"," ","M","P","a">>,
         <<"U","T","S"," ","1"," ","U","T","S"," ","2"," ","U","T","S">> >>),
    Passage("mechanical_properties",
      <<
         <<"U","T","S"," ","9","0","0","-","9","5","0"," ","M","P","a">>,
         <<"e", "l", "o", "n", "g", "a", "t", "i", "o", "n", " ", "0", ".", "2", "5",
           "~", "0", ".", "3", "0", " ", "%" >>,
         <<"Y","S"," ","6","0","0"," ","t","o"," ","6","5","0"," ","M","P","a">>,
         <<"R","m"," ","9","0","0","uff5e","9","5","0"," ","M","P","a">>,
         <<"U","T","S"," ","9","0","0","u81f3","9","5","0"," ","M","P","a">>,
         <<"Y","S"," ","6","0","0"," ","u2013"," ","6","5","0"," ","M","P","a">> >>),
    Passage("mechanical_properties",
      <<
         <<"U","T","S"," ","~","9","0","0"," ","M","P","a">>,
         <<"Y","S"," ","u2264","6","0","0"," ","M","P","a">>,
         <<"R","m"," ",">","9","0","0"," ","M","P","a">>,
         <<"e","l","o","n","g","a","t","i","o","n"," ","<","1","2"," ","%">>,
         <<"U","T","S"," ","~","<","5"," ","M","P","a">> >>),
    Passage("heat_treatment",
      <<
         <<"q", "u", "e", "n", "c", "h", " ", "q", "u", "e", "n", "c", "h", "i", "n",
           "g", " ", "i", "n", " ", "o", "i", "l", " ", "a", "n", "d", " ", "w", "a",
           "t", "e", "r" >>,
         <<"q","u","e","n","c","h","e","d">>,
         <<"W", "a", "t", "e", "r", " ", "Q", "u", "e", "n", "c", "h", " ", "t", "h",
           "e", "n", " ", "O", "I", "L" >>,
         <<"t", "h", "e", " ", "m", "e", "d", "i", "u", "m", " ", "w", "a", "s", " ",
           "w", "a", "t", "e", "r" >>,
         <<"a", "i", "r", " ", "c", "o", "o", "l", "e", "d", " ", "t", "h", "e", "n",
           " ", "q", "u", "e", "n", "c", "h" >> >>),
    Passage("heat_treatment",
      << <<"a","u","s","t","e","n","i","t","i","z","e","d"," ","a","n","d"," ","t","e","m","p","e","r","e","d"," ","f","o","r"," ","2"," ","h">> >>),
    Passage("microstructure", <<>>) }

ExtractCases == PhraseCases \cup PassageCases

Init ==
  /\ pc = "sentence"
  /\ src \in ExtractCases
  /\ schema = Schema(src.schema)
  /\ sentences = src.sentences
  /\ method_label = "rule_regex"
  /\ comp_text = <<>>
  /\ si = 1
  /\ fi = 1
  /\ ai = 1
  /\ alias_matches = <<>>
  /\ numeric_spans = <<>>
  /\ used_indices = <<>>
  /\ seen_spans = {}
  /\ value_match = <<>>
  /\ results = EmptyResults(schema)
  /\ warnings = <<>>
  /\ IdleCalls

Next == ExtractSchemaStep

Spec == Init /\ [][Next]_vars

---------------------------------------------------------------------------
(* extract_composition applied to one text                                 *)

\* the texts name the first MaxElement elements of COMPOSITION_FIELDS
MaxElement == 3

\* the values the texts are written with
CompositionValues ==
  { <<"-","5">>, <<"0">>, <<"0",".","4","5">>, <<"1","2">>, <<"1","0","0">>,
    <<"1","5","0">>, <<"0",".","1","-","0",".","2">> }

\* what follows the value: nothing, a unit attached or after a blank
CompositionUnits ==
  { <<>>, <<"%">>, <<" ","w","t",".","%">>, <<" ","a","t",".","%">>,
    <<" ","M","P","a">>, <<" ","p","p","m">> }

CompositionSeparators == { <<" ">>, <<":"," ">> }

\* the alias before the value, or after it
CompositionCases ==
  UNION {
    {[kind |-> "after", index |-> k, alias |-> COMPOSITION_FIELDS[k].aliases[a],
      value |-> v, unit |-> u,
      text |-> COMPOSITION_FIELDS[k].aliases[a] \o sep \o v \o u] :
       a \in DOMAIN COMPOSITION_FIELDS[k].aliases, v \in CompositionValues,
       u \in CompositionUnits, sep \in CompositionSeparators}
    \cup
    {[kind |-> "before", index |-> k, alias |-> COMPOSITION_FIELDS[k].aliases[a],
      value |-> v, unit |-> u,
      text |-> v \o u \o <<" ">> \o COMPOSITION_FIELDS[k].aliases[a]] :
       a \in DOMAIN COMPOSITION_FIELDS[k].aliases, v \in CompositionValues,
       u \in CompositionUnits} :
    k \in 1..MaxElement}

\* a composition listed without units: the element, its value, the next
\* element, its value
CompositionListings ==
  {[kind |-> "after", index |-> p[1], alias |-> COMPOSITION_FIELDS[p[1]].aliases[1],
    value |-> <<"0",".","4","5">>, unit |-> <<>>,
    text |-> COMPOSITION_FIELDS[p[1]].aliases[1] \o <<" ","0",".","4","5"," ">>
               \o COMPOSITION_FIELDS[p[2]].aliases[1] \o <<" ","1","2">>] :
     p \in {q \in (1..MaxElement) \X (1..MaxElement) : q[1] # q[2]}}

\* texts in which one value stands between two aliases, or two elements
\* share a sentence
CompositionPassages ==
  {[kind |-> "passage", index |-> 0, alias |-> <<>>, value |-> <<>>, unit |-> <<>>, text |-> t] :
     t \in { <<"C"," ","0",".","4","5"," ","C">>,
             <<"M","n"," ","1",".","2","%",","," ","S","i"," ","0",".","3","%",".">>,
             <<"C","r",":"," ","<","0",".","0","2"," ","w","t","%",";"," ","N","i"," ","x">>,
             <<>> }}

InitComposition ==
  /\ pc = "element"
  /\ src \in CompositionCases \cup CompositionListings \cup CompositionPassages
  /\ comp_text = src.text
  /\ schema = COMPOSITION_FIELDS
  /\ sentences = <<>>
  /\ method_label = "rule_regex"
  /\ si = 1
  /\ fi = 1
  /\ ai = 1
  /\ alias_matches = <<>>
  /\ numeric_spans = <<>>
  /\ used_indices = <<>>
  /\ seen_spans = {}
  /\ value_match = <<>>
  /\ results = EmptyResults(schema)
  /\ warnings = <<>>
  /\ IdleCalls

NextComposition == ExtractCompositionStep

SpecComposition == InitComposition /\ [][NextComposition]_vars


---------------------------------------------------------------------------
(* The claiming of spans by the alias occurrences of one field, for spans  *)
(* and occurrences given by their offsets in a sentence                    *)

\* a sentence has at most MaxSpans numeric spans
MaxSpans == 3

\* and at most MaxOccurrences alias occurrences
MaxOccurrences == 2

\* where a number may start: near the start of the sentence, and some ten
\* and twenty thousand characters further on
SpanOffsets == {0, 8, 16, 10030, 10050, 20100}

\* where an alias may start
AliasOffsets == {3, 11, 10040, 10060}

\* the spans find_numeric_spans reports for numbers of two characters at a
\* set of offsets: from the left
SpansAt(offsets) ==
  Only({[k \in 1..Len(starts) |-> [start |-> starts[k], end |-> starts[k] + 2, raw |-> <<>>]] :
          starts \in {SortedSeq(offsets)}})

\* the occurrences of an alias of three characters at a sequence of offsets
OccurrencesAt(starts) ==
  [k \in 1..Len(starts) |-> [alias |-> <<>>, start |-> starts[k], end |-> starts[k] + 3]]

SpanCases ==
  {SpansAt(offsets) :
     offsets \in {o \in SUBSET SpanOffsets : Cardinality(o) \in 1..MaxSpans}}

OccurrenceCases ==
  UNION {{OccurrencesAt(starts) : starts \in [1..n -> AliasOffsets]} : n \in 1..MaxOccurrences}

InitSelect ==
  /\ pc = "claim"
  /\ src = [kind |-> "offsets"]
  /\ numeric_spans \in SpanCases
  /\ alias_matches \in OccurrenceCases
  /\ used_indices = <<>>
  /\ ai = 1
  /\ schema = <<>>
  /\ sentences = <<>>
  /\ method_label = "rule_regex"
  /\ comp_text = <<>>
  /\ si = 1
  /\ fi = 1
  /\ seen_spans = {}
  /\ value_match = <<>>
  /\ results = <<>>
  /\ warnings = <<>>
  /\ IdleCalls

\* idx = select_closest_span(...); if idx is None: continue;
\* used_indices.append(idx)
ClaimSpan ==
  /\ pc = "claim"
  /\ ai <= Len(alias_matches)
  /\ \E idx \in {select_closest_span(AliasMatch.start, AliasMatch.end,
                                     numeric_spans, used_indices)} :
       used_indices' = IF idx = 0 THEN used_indices ELSE Append(used_indices, idx)
  /\ ai' = ai + 1
  /\ UNCHANGED <<pc, si, fi, alias_matches, numeric_spans>>
  /\ UNCHANGED <<callVars, inputVars, compVars, outVars>>

\* the loop over the alias occurrences is over
LeaveClaims ==
  /\ pc = "claim"
  /\ ai > Len(alias_matches)
  /\ pc' = "claimed"
  /\ UNCHANGED <<callVars, inputVars, sentVars, compVars, loopVars, outVars>>

NextSelect == ClaimSpan \/ LeaveClaims

SpecSelect == InitSelect /\ [][NextSelect]_vars

---------------------------------------------------------------------------
(* merge_measurement_groups applied to the groups of two passes            *)

\* the longest list a group holds for a field
MaxMeasurements == 2

\* the fields the groups hold Measurements of
MergeNumericField == CHOOSE k \in DOMAIN HEAT_TREATMENT_FIELDS :
                        HEAT_TREATMENT_FIELDS[k].field = "cooling_rate"
MergeCategoricalField == CHOOSE k \in DOMAIN HEAT_TREATMENT_FIELDS :
                            HEAT_TREATMENT_FIELDS[k].categorical

\* a numeric Measurement of the cooling rate
RateMeasurement(value, unit, has_range, raw, method) ==
  [field |-> "cooling_rate", value_type |-> "numeric", value |-> value, category |-> None,
   unit |-> unit, raw |-> raw, has_range |-> has_range,
   range |-> IF has_range THEN <<Rat(2, 5), Rat(1, 2)>> ELSE <<RatInt(0), RatInt(0)>>,
   method |-> method, sentence |-> <<>>, trigger |-> <<>>, page |-> None,
   has_qualifiers |-> FALSE, approximate |-> FALSE, operator |-> None]

\* the Measurements of one pass: they differ in the value beyond the sixth
\* decimal, in the sixth decimal, in the range, in the unit
MergeMeasurements(method) ==
  { RateMeasurement(Rat(9, 20), "degC/s", FALSE, <<"0",".","4","5">>, method),
    RateMeasurement(Rat(4500004, 10000000), "degC/s", FALSE, <<"0",".","4","5">>, method),
    RateMeasurement(Rat(450001, 1000000), "degC/s", FALSE, <<"0",".","4","5">>, method),
    RateMeasurement(Rat(9, 20), "degC/s", TRUE, <<"0",".","4","5">>, method),
    RateMeasurement(Rat(9, 20), "degC/min", FALSE, <<"0",".","4","5">>, method) }

\* the lists of a numeric field in the group of one pass
MergeLists(method) == UNION {[1..n -> MergeMeasurements(method)] : n \in 0..MaxMeasurements}

\* the lists of the categorical field: none, or the Measurement of a pass
CategoricalLists(method) ==
  { <<>>,
    <<[field |-> "quenching_medium", value_type |-> "categorical", value |-> RatInt(0),
       category |-> "water", unit |-> None, raw |-> <<"w","a","t","e","r">>,
       has_range |-> FALSE, range |-> <<RatInt(0), RatInt(0)>>,
       method |-> method, sentence |-> <<>>, trigger |-> <<"q","u","e","n","c","h">>,
       page |-> None, has_qualifiers |-> FALSE, approximate |-> FALSE, operator |-> None]>> }

\* a group: a list for every field of the schema
MergeGroup(rates, media) ==
  [k \in DOMAIN HEAT_TREATMENT_FIELDS |->
     IF k = MergeNumericField THEN rates
     ELSE IF k = MergeCategoricalField THEN media ELSE <<>>]

\* heat_rule and heat_nlp
InitMerge ==
  /\ pc = "merge"
  /\ \E r1 \in MergeLists("rule_regex"), r2 \in MergeLists("regex_sentences"),
        c1 \in CategoricalLists("rule_regex"), c2 \in CategoricalLists("regex_sentences") :
       src = [kind |-> "groups", groups |-> <<MergeGroup(r1, c1), MergeGroup(r2, c2)>>]
  /\ schema = HEAT_TREATMENT_FIELDS
  /\ results = EmptyResults(schema)
  /\ numeric_spans = <<>>
  /\ alias_matches = <<>>
  /\ used_indices = <<>>
  /\ ai = 1
  /\ sentences = <<>>
  /\ method_label = "rule_regex"
  /\ comp_text = <<>>
  /\ si = 1
  /\ fi = 1
  /\ seen_spans = {}
  /\ value_match = <<>>
  /\ warnings = <<>>
  /\ IdleCalls

\* heat_treatment = merge_measurement_groups(heat_rule, heat_nlp)
MergeGroups ==
  /\ pc = "merge"
  /\ results' = merge_measurement_groups(src.groups)
  /\ pc' = "merged"
  /\ UNCHANGED <<callVars, inputVars, sentVars, compVars, loopVars, warnings>>

NextMerge == MergeGroups

SpecMerge == InitMerge /\ [][NextMerge]_vars

---------------------------------------------------------------------------
(* NLPExtractor: construction, and calls of extract                        *)

\* what the import of spaCy, the load of its model and the blank pipeline
\* with a sentencizer do in the environment
NlpEnvironments == {"model", "no_model", "no_pipeline", "no_spacy"}

\* self.pipeline after __init__
PipelineOf(environment) ==
  CASE environment = "model" -> "en_core_web_sm"
    [] environment = "no_model" -> "blank"
    [] OTHER -> None

\* self.method after __init__: nlp_dependency unless the load of the model
\* raises; heuristic_sentencizer when the blank pipeline is built instead;
\* regex_sentences when the import or the blank pipeline raises
MethodOf(environment) ==
  CASE environment = "model" -> "nlp_dependency"
    [] environment = "no_model" -> "heuristic_sentencizer"
    [] OTHER -> "regex_sentences"

\* the keywords of extract: the aliases of the heat-treatment fields, then
\* of the mechanical-property fields
NlpKeywords ==
  Flatten([k \in DOMAIN HEAT_TREATMENT_FIELDS |-> HEAT_TREATMENT_FIELDS[k].aliases])
    \o Flatten([k \in DOMAIN MECHANICAL_PROPERTY_FIELDS |-> MECHANICAL_PROPERTY_FIELDS[k].aliases])

\* any(keyword in lowered for keyword in lowered_keywords), false for a
\* sentence that is empty
HasKeyword(sentence) ==
  /\ sentence # <<>>
  /\ Only({\E k \in DOMAIN NlpKeywords : Contains(lowered, Lower(NlpKeywords[k])) :
             lowered \in {Lower(sentence)}})

RECURSIVE JoinedSegments(_, _)
\* the segments from the i-th on, joined by spaces
JoinedSegments(segments, i) ==
  IF i > Len(segments) THEN <<>>
  ELSE IF i = Len(segments) THEN Strip(segments[i])
  ELSE Strip(segments[i]) \o <<" ">> \o JoinedSegments(segments, i + 1)

\* sentences_with_keywords on a text that is not cut into sentences
sentences_of_whole_text(segments) ==
  SelectSeq(<<JoinedSegments(segments, 1)>>, HasKeyword)

\* sentences_with_keywords on the sentences the pipeline or split_sentences
\* cuts the text into: each stripped, those with a keyword kept
sentences_with_keywords(segments) ==
  SelectSeq([i \in DOMAIN segments |-> Strip(segments[i])], HasKeyword)

\* the texts extract is called with, each as the sentences it is cut into
NlpTexts == {p.sentences : p \in PassageCases}

InitNlp ==
  /\ pc = "construct"
  /\ \E environment \in NlpEnvironments :
       src = [kind |-> "nlp", environment |-> environment, pipeline |-> None,
              text |-> <<>>, pass |-> None]
  /\ method_label = None
  /\ schema = <<>>
  /\ sentences = <<>>
  /\ comp_text = <<>>
  /\ si = 1
  /\ fi = 1
  /\ ai = 1
  /\ alias_matches = <<>>
  /\ numeric_spans = <<>>
  /\ used_indices = <<>>
  /\ seen_spans = {}
  /\ value_match = <<>>
  /\ results = <<>>
  /\ warnings = <<>>
  /\ IdleCalls

\* NLPExtractor.__init__
NLPExtractorInit ==
  /\ pc = "construct"
  /\ src' = [src EXCEPT !.pipeline = PipelineOf(src.environment)]
  /\ method_label' = MethodOf(src.environment)
  /\ pc' = "ready"
  /\ UNCHANGED <<schema, sentences, comp_text>>
  /\ UNCHANGED <<callVars, sentVars, compVars, loopVars, outVars>>

\* the call of extract_schema_from_sentences(sentences, fields, self.method)
\* up to its loop
CallSchema(fields, kept) ==
  /\ schema' = fields
  /\ sentences' = kept
  /\ results' = EmptyResults(fields)
  /\ si' = 1
  /\ fi' = 1
  /\ ai' = 1
  /\ alias_matches' = <<>>
  /\ numeric_spans' = <<>>
  /\ used_indices' = <<>>
  /\ pc' = "sentence"
  /\ UNCHANGED <<method_label, comp_text>>
  /\ UNCHANGED <<callVars, compVars>>

\* extract(text): the sentences with keywords, and the heat-treatment pass;
\* warnings holds what this call logs
NlpExtract ==
  /\ pc = "ready"
  /\ \E text \in NlpTexts :
       /\ src' = [src EXCEPT !.text = text, !.pass = "heat"]
       /\ CallSchema(HEAT_TREATMENT_FIELDS, sentences_with_keywords(text))
       /\ warnings' = <<>>

\* heat is returned: the mechanical-property pass over the same sentences
NlpProperties ==
  /\ pc = "done"
  /\ src.kind = "nlp"
  /\ src.pass = "heat"
  /\ src' = [src EXCEPT !.pass = "properties"]
  /\ CallSchema(MECHANICAL_PROPERTY_FIELDS, sentences)
  /\ UNCHANGED warnings

\* return heat, properties
NlpReturn ==
  /\ pc = "done"
  /\ src.kind = "nlp"
  /\ src.pass = "properties"
  /\ src' = [src EXCEPT !.pass = None]
  /\ pc' = "ready"
  /\ UNCHANGED <<schema, sentences, method_label, comp_text>>
  /\ UNCHANGED <<callVars, sentVars, compVars, loopVars, outVars>>

\* a sentence kept for a keyword is not blank
NextNlp ==
  \/ NLPExtractorInit \/ NlpExtract \/ NlpProperties \/ NlpReturn
  \/ ReturnResults \/ EnterSentence \/ LeaveSentence
  \/ VisitField \/ LeaveAliases \/ VisitAlias

SpecNlp == InitNlp /\ [][NextNlp]_vars

---------------------------------------------------------------------------
(* The extraction passes side by side                                      *)

\* a text given to the sentence extractor or to the composition extractor
\* by the rule-based pass, or an NLPExtractor
InitPasses == Init \/ InitComposition \/ InitNlp

NextPasses == Next \/ NextComposition \/ NextNlp

SpecPasses == InitPasses /\ [][NextPasses]_vars

---------------------------------------------------------------------------
(* process_papers_from_directory: process_pdf and                          *)
(* extract_steel_data_from_text for every PDF of a directory               *)

\* the most PDF files a directory holds
MaxFiles == 2

\* the texts pdfminer reads from the files
PaperTexts ==
  { <<"C"," ","0",".","4","5","%","."," ","U","T","S"," ","9","0","0"," ","M","P","a","."," ",
      "Q","u","e","n","c","h","e","d"," ","i","n"," ","w","a","t","e","r",".">>,
    <<"T","h","e"," ","U","T","S"," ","w","a","s"," ","h","i","g","h","."," ",
      "I","t"," ","r","e","a","c","h","e","d"," ","9","0","0"," ","M","P","a",".">>,
    <<"N","o"," ","d","a","t","a"," ","h","e","r","e",".">>,
    <<" ">>,
    <<>> }

\* what extract_text does for a file: it returns a text, or it raises
PdfOutcomes ==
  {[kind |-> "text", raw |-> t, exception |-> None] : t \in PaperTexts}
    \cup {[kind |-> "raises", raw |-> <<>>, exception |-> e] : e \in {"PDFSyntaxError", "Exception"}}

\* process_pdf with the first of its except clauses only
CaughtSyntaxOnly(exception) == exception = "PDFSyntaxError"

\* the except clauses of process_pdf: PDFSyntaxError, then Exception
Caught(exception) == exception \in {"PDFSyntaxError", "Exception"}

\* the passes of extract_steel_data_from_text in the order it runs them
Passes == <<"composition", "heat_rule", "properties_rule", "microstructure", "heat_nlp",
            "properties_nlp">>

PassIndex(name) == CHOOSE i \in DOMAIN Passes : Passes[i] = name

\* the schema of a pass
PassFields(name) ==
  CASE name = "composition" -> COMPOSITION_FIELDS
    [] name \in {"heat_rule", "heat_nlp"} -> HEAT_TREATMENT_FIELDS
    [] name \in {"properties_rule", "properties_nlp"} -> MECHANICAL_PROPERTY_FIELDS
    [] name = "microstructure" -> MICROSTRUCTURE_FIELDS

\* the method label of a pass: rule_regex, or the label of the NLPExtractor
\* built in the environment
PassLabel(name, environment) ==
  IF name \in {"heat_nlp", "properties_nlp"} THEN MethodOf(environment) ELSE "rule_regex"

\* the sentences of a pass: sentences or split_sentences(text) for the rule
\* passes, the sentences with keywords for the first NLP pass, the same
\* again for the second
PassSentences(name, text, rule_sentences, current) ==
  CASE name = "heat_nlp" -> sentences_with_keywords(split_sentences(text))
    [] name = "properties_nlp" -> current
    [] OTHER -> IF rule_sentences = <<>> THEN split_sentences(text) ELSE rule_sentences

\* no pass has returned yet
NoPaper == [p \in {} |-> <<>>]

\* the dictionary extract_steel_data_from_text returns
SteelData(paper) ==
  [composition |-> Section(DOMAIN paper["composition"], paper["composition"]),
   heat_treatment |->
     Section(MergedKeys(<<paper["heat_rule"], paper["heat_nlp"]>>),
             merge_measurement_groups(<<paper["heat_rule"], paper["heat_nlp"]>>)),
   mechanical_properties |->
     Section(MergedKeys(<<paper["properties_rule"], paper["properties_nlp"]>>),
             merge_measurement_groups(<<paper["properties_rule"], paper["properties_nlp"]>>)),
   microstructure |-> Section(DOMAIN paper["microstructure"], paper["microstructure"])]

SectionNames == {"composition", "heat_treatment", "mechanical_properties", "microstructure"}

\* any(paper_data.get(key) for key in (...)): a section that is not an
\* empty dictionary
AnySection(data) == \E name \in SectionNames : data[name].keys # {}

\* "text_snippet": normalized_text[:1000] + "..." if normalized_text else ""
TextSnippet(text) ==
  IF text = <<>> THEN <<>> ELSE Slice(text, 0, Min({1000, Len(text)})) \o <<".", ".", ".">>

InitBatch ==
  /\ pc = "file"
  /\ \E environment \in NlpEnvironments, files \in 0..MaxFiles :
       src = [kind |-> "batch", environment |-> environment, files |-> files, file |-> 1,
              outcomes |-> <<>>, phase |-> None, paper |-> NoPaper,
              calls |-> <<>>, dataset |-> <<>>]
  /\ method_label = "rule_regex"
  /\ schema = <<>>
  /\ sentences = <<>>
  /\ comp_text = <<>>
  /\ si = 1
  /\ fi = 1
  /\ ai = 1
  /\ alias_matches = <<>>
  /\ numeric_spans = <<>>
  /\ used_indices = <<>>
  /\ seen_spans = {}
  /\ value_match = <<>>
  /\ results = <<>>
  /\ warnings = <<>>
  /\ IdleCalls

\* the loop of process_papers_from_directory is over: return dataset
ReturnDataset ==
  /\ pc = "file"
  /\ src.kind = "batch"
  /\ src.file > src.files
  /\ pc' = "returned"
  /\ UNCHANGED <<callVars, inputVars, sentVars, compVars, loopVars, outVars>>

\* process_pdf returns None, or raises: the next file, or the end of the
\* call
LeavePdf(outcome, log) ==
  /\ src' = [src EXCEPT !.outcomes = Append(@, outcome), !.file = @ + 1]
  /\ warnings' = log
  /\ pc' = IF outcome.kind = "raises" /\ ~Caught(outcome.exception) THEN "raised" ELSE "file"
  /\ UNCHANGED <<schema, sentences, method_label, comp_text, results>>
  /\ UNCHANGED <<callVars, sentVars, compVars, loopVars>>

\* extract_steel_data_from_text(text) up to the loop of extract_composition
EnterText(outcome, text) ==
  /\ src' = [src EXCEPT !.outcomes = Append(@, outcome), !.phase = "composition",
                        !.paper = NoPaper]
  /\ comp_text' = text
  /\ sentences' = split_sentences(text)
  /\ schema' = COMPOSITION_FIELDS
  /\ method_label' = "rule_regex"
  /\ results' = EmptyResults(COMPOSITION_FIELDS)
  /\ warnings' = <<>>
  /\ si' = 1
  /\ fi' = 1
  /\ ai' = 1
  /\ alias_matches' = <<>>
  /\ numeric_spans' = <<>>
  /\ used_indices' = <<>>
  /\ pc' = "element"
  /\ UNCHANGED <<callVars, compVars>>

\* for filename in pdf_files: process_pdf(pdf_path) down to the call of
\* extract_steel_data_from_text; a file without text and a file that raises
\* an exception process_pdf catches are skipped
ProcessPdf ==
  /\ pc = "file"
  /\ src.kind = "batch"
  /\ src.file <= src.files
  /\ \E outcome \in PdfOutcomes :
       IF outcome.kind = "raises"
         THEN LeavePdf(outcome, <<Warning("pdf_error", None, <<>>, None)>>)
       ELSE IF outcome.raw = <<>>
         THEN LeavePdf(outcome, <<Warning("no_text", None, <<>>, None)>>)
       ELSE EnterText(outcome, preprocess_text(preprocess_text(outcome.raw)))

\* a pass has returned: its result is kept, the next pass is called
NextPass ==
  /\ pc = "done"
  /\ src.kind = "batch"
  /\ src.phase # Passes[Len(Passes)]
  /\ \E next \in {Passes[PassIndex(src.phase) + 1]} :
       /\ src' = [src EXCEPT !.phase = next,
                             !.paper = [p \in DOMAIN @ \cup {src.phase} |->
                                          IF p = src.phase THEN results ELSE @[p]]]
       /\ schema' = PassFields(next)
       /\ method_label' = PassLabel(next, src.environment)
       /\ sentences' = PassSentences(next, comp_text,
                                     IF src.phase = "composition" THEN sentences
                                     ELSE split_sentences(comp_text), sentences)
       /\ results' = EmptyResults(PassFields(next))
  /\ si' = 1
  /\ fi' = 1
  /\ ai' = 1
  /\ alias_matches' = <<>>
  /\ numeric_spans' = <<>>
  /\ used_indices' = <<>>
  /\ pc' = "sentence"
  /\ UNCHANGED <<comp_text, warnings>>
  /\ UNCHANGED <<callVars, compVars>>

\* the last pass has returned: the groups are merged, process_pdf returns
\* the paper, and the loop appends it to the dataset or logs that no data
\* was extracted
FinishPaper ==
  /\ pc = "done"
  /\ src.kind = "batch"
  /\ src.phase = Passes[Len(Passes)]
  /\ \E paper \in {[p \in DOMAIN src.paper \cup {src.phase} |->
                      IF p = src.phase THEN results ELSE src.paper[p]]} :
     \E data \in {SteelData(paper)} :
       /\ src' = [src EXCEPT
                    !.phase = None,
                    !.paper = NoPaper,
                    !.file = @ + 1,
                    !.calls = Append(@, [text |-> comp_text, paper |-> paper, result |-> data]),
                    !.dataset = IF AnySection(data)
                                  THEN Append(@, [file |-> src.file, data |-> data,
                                                  text_snippet |-> TextSnippet(comp_text)])
                                  ELSE @]
       /\ warnings' = IF AnySection(data) THEN warnings
                      ELSE Append(warnings, Warning("no_data", None, <<>>, None))
  /\ pc' = "file"
  /\ UNCHANGED <<schema, sentences, method_label, comp_text, results>>
  /\ UNCHANGED <<callVars, sentVars, compVars, loopVars>>

\* an exception leaves a pass of extract_steel_data_from_text: the except
\* clauses of process_pdf decide whether the loop goes on
ExtractionRaises ==
  /\ pc = "done"
  /\ src.kind = "batch"
  /\ \E exception \in {"Exception"} :
       /\ src' = [src EXCEPT
                    !.outcomes[Len(src.outcomes)] =
                       [@ EXCEPT !.kind = "raises", !.exception = exception],
                    !.phase = None,
                    !.paper = NoPaper,
                    !.file = @ + 1]
       /\ pc' = IF Caught(exception) THEN "file" ELSE "raised"
  /\ warnings' = <<Warning("pdf_error", None, <<>>, None)>>
  /\ UNCHANGED <<schema, sentences, method_label, comp_text, results>>
  /\ UNCHANGED <<callVars, sentVars, compVars, loopVars>>

NextBatch ==
  \/ ProcessPdf \/ NextPass \/ FinishPaper \/ ReturnDataset \/ ExtractionRaises
  \/ ExtractCompositionStep
  \/ ReturnResults \/ EnterSentence \/ LeaveSentence
  \/ VisitField \/ LeaveAliases \/ VisitAlias

SpecBatch == InitBatch /\ [][NextBatch]_vars

---------------------------------------------------------------------------
(* parsers/pdf_table_extractor.py: extract_tables_from_pdf and its four    *)
(* strategies                                                              *)

\* the most pages of a PDF, and the most tables a library call returns
MaxPages == 2
MaxFrames == 2

\* the optional imports at the head of the module
TableDependencies == {"pandas", "pdfplumber", "camelot", "tabula", "ocr"}

\* what one library call does: it raises, or it returns frames, of which
\* so many have rows left after cleaning
CallOutcomes == {[raises |-> TRUE, frames |-> 0]}
                  \cup {[raises |-> FALSE, frames |-> n] : n \in 0..MaxFrames}

\* a table of the result
Table(method, page) == [extraction_method |-> method, page |-> page]

\* _dataframe_to_rows: no rows without pandas
HasRows(installed) == "pandas" \in installed

\* the tables of one call: none if it raised, else one for each frame with
\* rows
CallTables(installed, outcome, method, page) ==
  IF outcome.raises \/ ~HasRows(installed) THEN <<>>
  ELSE [i \in 1..outcome.frames |-> Table(method, page)]

RECURSIVE PageTables(_, _, _, _, _)
\* for page_number in page_numbers: the tables of the calls, a call that
\* raises skipped
PageTables(installed, outcomes, method, page_numbers, i) ==
  IF i > Len(page_numbers) THEN <<>>
  ELSE CallTables(installed, outcomes[i], method, page_numbers[i])
         \o PageTables(installed, outcomes, method, page_numbers, i + 1)

\* what is kept of a strategy that has run
Ran(strategy, missing, outcomes, found) ==
  [strategy |-> strategy, missing |-> missing, outcomes |-> outcomes, found |-> found]

\* the guard of a strategy that ignores the tables found so far
RunAlways(tables) == TRUE

\* if not tables
RunLater(tables) == tables = <<>>

InitTables ==
  /\ pc = "lattice"
  /\ \E installed \in SUBSET TableDependencies, pages \in 1..MaxPages :
       src = [kind |-> "tables", installed |-> installed, pages |-> pages, ran |-> <<>>]
  /\ results = <<>>
  /\ warnings = <<>>
  /\ method_label = None
  /\ schema = <<>>
  /\ sentences = <<>>
  /\ comp_text = <<>>
  /\ si = 1
  /\ fi = 1
  /\ ai = 1
  /\ alias_matches = <<>>
  /\ numeric_spans = <<>>
  /\ used_indices = <<>>
  /\ seen_spans = {}
  /\ value_match = <<>>
  /\ IdleCalls

\* a strategy has returned its tables: tables.extend(...)
Extend(strategy, missing, outcomes, found, next) ==
  /\ results' = results \o found
  /\ src' = [src EXCEPT !.ran = Append(@, Ran(strategy, missing, outcomes, Len(found)))]
  /\ pc' = next
  /\ UNCHANGED warnings

\* a strategy is not called
Skip(next) ==
  /\ pc' = next
  /\ UNCHANGED <<src, results, warnings>>

\* _extract_with_camelot(filepath, flavor): one call of camelot.read_pdf
ExtractWithCamelot(flavor, next) ==
  IF "camelot" \notin src.installed
    THEN Extend(flavor, TRUE, <<>>, <<>>, next)
    ELSE \E outcome \in CallOutcomes :
           Extend(flavor, FALSE, <<outcome>>,
                  CallTables(src.installed, outcome, flavor, None), next)

\* tables.extend(_extract_with_camelot(filepath, flavor="lattice"))
CamelotLattice ==
  /\ pc = "lattice"
  /\ src.kind = "tables"
  /\ ExtractWithCamelot("camelot-lattice", "stream")
  /\ UNCHANGED <<schema, sentences, method_label, comp_text>>
  /\ UNCHANGED <<callVars, sentVars, compVars, loopVars>>

\* if not tables: tables.extend(_extract_with_camelot(filepath, flavor="stream"))
CamelotStream ==
  /\ pc = "stream"
  /\ src.kind = "tables"
  /\ IF RunLater(results) THEN ExtractWithCamelot("camelot-stream", "tabula")
     ELSE Skip("tabula")
  /\ UNCHANGED <<schema, sentences, method_label, comp_text>>
  /\ UNCHANGED <<callVars, sentVars, compVars, loopVars>>

\* _extract_with_tabula(filepath): one call of tabula.read_pdf for each
\* page, or one for all pages when the pages cannot be counted
ExtractWithTabula ==
  IF "tabula" \notin src.installed
    THEN Extend("tabula", TRUE, <<>>, <<>>, "ocr")
    ELSE \E counted \in IF "pdfplumber" \in src.installed THEN BOOLEAN ELSE {FALSE} :
         \E page_numbers \in {IF counted THEN [i \in 1..src.pages |-> i] ELSE <<"all">>} :
         \E outcomes \in [DOMAIN page_numbers -> CallOutcomes] :
           Extend("tabula", FALSE, outcomes,
                  PageTables(src.installed, outcomes, "tabula",
                             [i \in DOMAIN page_numbers |->
                                IF counted THEN page_numbers[i] ELSE None], 1),
                  "ocr")

\* if not tables: tables.extend(_extract_with_tabula(filepath))
Tabula ==
  /\ pc = "tabula"
  /\ src.kind = "tables"
  /\ IF RunLater(results) THEN ExtractWithTabula ELSE Skip("ocr")
  /\ UNCHANGED <<schema, sentences, method_label, comp_text>>
  /\ UNCHANGED <<callVars, sentVars, compVars, loopVars>>

\* _extract_with_ocr(filepath): convert_from_path renders the pages or
\* raises, then one call of pytesseract.image_to_data for each page; the
\* frames of a page are its blocks that look like a table
ExtractWithOcr ==
  IF "ocr" \notin src.installed
    THEN Extend("ocr", TRUE, <<>>, <<>>, "return")
    ELSE \E rendered \in BOOLEAN :
           IF ~rendered
             THEN Extend("ocr", FALSE, <<[raises |-> TRUE, frames |-> 0]>>, <<>>, "return")
             ELSE \E outcomes \in [1..src.pages -> CallOutcomes] :
                    Extend("ocr", FALSE, outcomes,
                           PageTables(src.installed \cup {"pandas"}, outcomes, "ocr",
                                      [i \in 1..src.pages |-> i], 1),
                           "return")

\* if not tables: tables.extend(_extract_with_ocr(filepath))
Ocr ==
  /\ pc = "ocr"
  /\ src.kind = "tables"
  /\ IF RunLater(results) THEN ExtractWithOcr ELSE Skip("return")
  /\ UNCHANGED <<schema, sentences, method_label, comp_text>>
  /\ UNCHANGED <<callVars, sentVars, compVars, loopVars>>

\* if not tables: logger.warning(...); return tables
ReturnTables ==
  /\ pc = "return"
  /\ src.kind = "tables"
  /\ warnings' = IF results = <<>> THEN <<Warning("no_tables", None, <<>>, None)>> ELSE warnings
  /\ pc' = "returned"
  /\ UNCHANGED <<src, results>>
  /\ UNCHANGED <<schema, sentences, method_label, comp_text>>
  /\ UNCHANGED <<callVars, sentVars, compVars, loopVars>>

NextTables == CamelotLattice \/ CamelotStream \/ Tabula \/ Ocr \/ ReturnTables

SpecTables == InitTables /\ [][NextTables]_vars

---------------------------------------------------------------------------
(* detect_unit_for_span's decision, normalize_measurement_values and the   *)
(* Measurement for a range written with a unit, for every numeric field    *)

\* the largest magnitude of an endpoint of the ranges written with a unit
MaxRangeEnd == 3

\* the keys of UNIT_CATALOG as they are written in a text
UnitSpellings ==
  { <<"w","t",".","%">>, <<"%">>, <<"a","t",".","%">>, <<"u00b0","C">>, <<"K">>, <<"u00b0","F">>,
    <<"m","i","n">>, <<"h">>, <<"s">>, <<"M","P","a">>, <<"G","P","a">>, <<"P","a">>,
    <<"k","P","a">>, <<"H","V">>, <<"H","R","C">>, <<"H","B">>, <<"J">>, <<"k","J">>,
    <<"k","J","/","m","^","2">>, <<"J","/","c","m","^","2">>, <<"u00b0","C","/","s">>,
    <<"u00b0","C","/","m","i","n">>, <<"u03bc","m">>, <<"m","m">> }

\* the fields of a schema that are not categorical, by their index
NumericIndices(name) == {k \in DOMAIN Schema(name) : ~Schema(name)[k].categorical}

\* the unit texts after a number that a field accepts, and <<>> for none
AcceptedSpellings(meta) ==
  {<<>>} \cup {raw_unit \in UnitSpellings : UnitDecision(raw_unit, meta).canonical # None}

NormalizeCases ==
  UNION {UNION {
    {[kind |-> "normalize", schema |-> name, index |-> k, raw_unit |-> raw_unit,
      a |-> ab[1], b |-> ab[2]] :
       raw_unit \in AcceptedSpellings(Schema(name)[k]),
       ab \in ((-MaxRangeEnd)..MaxRangeEnd) \X ((-MaxRangeEnd)..MaxRangeEnd)} :
    k \in NumericIndices(name)} :
    name \in {"composition", "heat_treatment", "mechanical_properties", "microstructure"}}

InitNormalize ==
  /\ pc = "range_call"
  /\ src \in NormalizeCases
  /\ schema = Schema(src.schema)
  /\ fi = src.index
  /\ num_src = [kind |-> "range", a |-> src.a, b |-> src.b, sep |-> <<" ","t","o"," ">>,
                style |-> "plain",
                written |-> SignedText(src.a) \o <<" ","t","o"," ">> \o SignedText(src.b)]
  /\ num_arg = num_src.written
  /\ num_text = <<>>
  /\ num_ret = ParseNone
  /\ unit_arg = src.raw_unit
  /\ unit_ret = None
  /\ sentences = <<>>
  /\ method_label = "rule_regex"
  /\ comp_text = <<>>
  /\ si = 1
  /\ ai = 1
  /\ alias_matches = <<>>
  /\ numeric_spans = <<>>
  /\ used_indices = <<>>
  /\ seen_spans = {}
  /\ value_match = <<>>
  /\ results = EmptyResults(schema)
  /\ warnings = <<>>

\* parsed = parse_numeric_expression(raw)
ParseRange ==
  /\ pc = "range_call"
  /\ num_text' = preprocess_text(num_arg)
  /\ num_ret' = parse_numeric_expression(preprocess_text(num_arg))
  /\ pc' = "range_parsed"
  /\ UNCHANGED <<unit_arg, unit_ret, num_src, num_arg>>
  /\ UNCHANGED <<inputVars, sentVars, compVars, loopVars, outVars>>

\* the unit decided on, normalized = normalize_measurement_values(...) and
\* results[field].append(measurement)
NormalizeRange ==
  /\ pc = "range_parsed"
  /\ \E meta \in {schema[fi]} :
     \E decision \in {IF unit_arg = <<>>
                        THEN [canonical |-> meta.default_unit, raw_unit |-> <<>>]
                        ELSE UnitDecision(unit_arg, meta)} :
     \E normalized \in {normalize_measurement_values(num_ret, decision.canonical,
                                                     decision.raw_unit, meta)} :
       /\ unit_ret' = decision.canonical
       /\ IF num_ret.ok /\ normalized.ok
            THEN /\ results' = [results EXCEPT ![fi] = Append(@,
                      NumericMeasurement(meta.field, num_ret, normalized, num_arg,
                                         method_label, num_arg, <<>>, TRUE))]
                 /\ UNCHANGED warnings
            ELSE /\ warnings' = warnings \o UnitWarnings(normalized, meta.field)
                 /\ UNCHANGED results
  /\ pc' = "range_done"
  /\ UNCHANGED <<unit_arg, num_src, num_arg, num_text, num_ret>>
  /\ UNCHANGED <<inputVars, sentVars, compVars, loopVars>>

NextNormalize == ParseRange \/ NormalizeRange

SpecNormalize == InitNormalize /\ [][NextNormalize]_vars

\* the ranges of the sentences of Spec and the ranges of SpecNormalize
InitRanges == Init \/ InitNormalize

NextRanges == Next \/ NextNormalize

SpecRanges == InitRanges /\ [][NextRanges]_vars
---------------------------------------------------------------------------
(* Units in the sentence extractor                                         *)

\* the numeric span the alias occurrence at hand claims, 0 for none
ClaimedIndex ==
  select_closest_span(AliasMatch.start, AliasMatch.end, numeric_spans, used_indices)

ClaimedSpan == numeric_spans[ClaimedIndex]

\* the unit-like token next to the claimed span, <<>> for none
ClaimedToken == AdjacentUnit(Sentence, ClaimedSpan.start, ClaimedSpan.end)

\* the alias occurrence at hand claims a span next to which a unit-like
\* token stands that does not canonicalize to a unit of the field
UnitMismatch ==
  /\ pc = "alias"
  /\ ai <= Len(alias_matches)
  /\ ClaimedIndex # 0
  /\ ClaimedToken # <<>>
  /\ canonicalize_unit(ClaimedToken) \notin FieldUnits(Meta)

\* C1 as stated: in extract_schema_from_sentences, when a unit-like token
\* stands next to the claimed span and does not canonicalize to a unit
\* allowed for the field, the alias occurrence emits no Measurement and logs
\* a warning that names the raw unit text.
C1_MismatchLogsUnitText ==
  [][UnitMismatch =>
       /\ results' = results
       /\ Len(warnings') = Len(warnings) + 1
       /\ warnings'[Len(warnings')].text = ClaimedToken]_vars

\* C1, amended: in extract_schema_from_sentences, when a unit-like token
\* stands next to the claimed span and does not canonicalize to a unit
\* allowed for the field, the alias occurrence emits no Measurement; if the
\* number of the span parses, it logs a warning that names the field and the
\* raw unit text; if it does not parse, it logs a warning that names the raw
\* number text and looks at no unit.
C1_MismatchEmitsNothing ==
  [][UnitMismatch =>
       /\ results' = results
       /\ warnings' = Append(warnings,
            IF parse_numeric_expression(ClaimedSpan.raw).ok
              THEN Warning("unrecognized_unit", Meta.field, ClaimedToken, None)
              ELSE Warning("unparseable_number", None, ClaimedSpan.raw, None))]_vars

\* "tensile strength 1 psi" is through: nothing emitted, psi named
C1_Witness ==
  /\ pc = "done"
  /\ src.kind = "phrase"
  /\ src.field = "tensile_strength"
  /\ src.unit_text = <<"p","s","i">>
  /\ \A k \in DOMAIN results : results[k] = <<>>
  /\ warnings = <<Warning("unrecognized_unit", "tensile_strength", <<"p","s","i">>, None)>>

\* the field a phrase is written for
PhraseField == schema[src.index]

\* the units of the field the unit text of a phrase is a listed spelling of
PhraseUnits == WrittenUnits(src.unit_text) \cap FieldUnits(PhraseField)

\* C2: when the number claimed for a field is followed by a listed spelling
\* of a unit allowed for the field, every Measurement emitted for the field
\* has the number converted from that unit to the base unit as its value.
C2_ListedUnitConverts ==
  (pc = "done" /\ src.kind = "phrase") =>
    \A unit \in PhraseUnits :
      \A j \in DOMAIN results[src.index] :
        results[src.index][j].value = ToBase(PhraseField.unit_type, unit, RatInt(src.number))

\* C3: every Measurement emitted for a field carries the field's base unit,
\* whatever unit was written.
C3_OneUnitPerField ==
  pc = "done" =>
    \A k \in DOMAIN results :
      \A j \in DOMAIN results[k] : results[k][j].unit = schema[k].default_unit

\* C4: for the hardness field, a number followed by a listed spelling of HV,
\* HRC or HB yields a Measurement whose value is the number and whose unit
\* is that scale.
C4_HardnessPassedThrough ==
  (pc = "done" /\ src.kind = "phrase" /\ src.field = "hardness" /\ PhraseUnits # {}) =>
    \E j \in DOMAIN results[src.index] :
      /\ results[src.index][j].value = RatInt(src.number)
      /\ results[src.index][j].unit \in PhraseUnits

\* C5: every Measurement extract_composition returns has a value v with
\* 0 < v <= 100.
C5_CompositionWithinBound ==
  pc = "done" =>
    \A k \in DOMAIN results :
      \A j \in DOMAIN results[k] :
        /\ RatLt(RatInt(0), results[k][j].value)
        /\ RatLe(results[k][j].value, RatInt(100))

---------------------------------------------------------------------------
(* Properties of canonicalize_unit, checked under SpecUnit                 *)

\* whether a string is, up to the normalisation of spellings, a spelling
\* the catalog lists
Listed(s) ==
  \E spelling \in CatalogSpellings : normalize_unit_alias(spelling) = normalize_unit_alias(s)

\* C6: canonicalize_unit maps every spelling the catalog lists for a unit,
\* its aliases and its canonical name, to the canonical name of that unit.
C6_ListedSpellingRoundTrip ==
  pc = "unit_done" =>
    \A k \in DOMAIN UNIT_CATALOG :
      unit_arg \in Range(Spellings(UNIT_CATALOG[k])) => unit_ret = UNIT_CATALOG[k].canonical

\* C7 as stated: canonicalize_unit returns None for every string that is
\* not a listed spelling of a unit, ordinary words that begin with the
\* letters of a short alias included.
C7_UnlistedGivesNone ==
  (pc = "unit_done" /\ ~Listed(unit_arg)) => unit_ret = None

\* the keys of the alias table the normalised form of a string begins with
KeysBeginning(s) == {key \in DOMAIN UNIT_ALIAS_TO_CANONICAL : StartsWith(normalize_unit_alias(s), key)}

\* C7 amended: canonicalize_unit returns None exactly when the normalised
\* form of the string is empty or begins with no key of the alias table;
\* otherwise it returns the unit of the longest key the form begins with.
C7_NoneIffNoKeyBegins ==
  pc = "unit_done" =>
    IF normalize_unit_alias(unit_arg) = <<>> \/ KeysBeginning(unit_arg) = {}
      THEN unit_ret = None
      ELSE \E key \in KeysBeginning(unit_arg) :
             /\ \A other \in KeysBeginning(unit_arg) : Len(other) <= Len(key)
             /\ unit_ret = UNIT_ALIAS_TO_CANONICAL[key]

\* an unlisted, non-empty string has been canonicalized to None
C7_Witness ==
  /\ pc = "unit_done"
  /\ unit_arg = <<"p","s","i">>
  /\ ~Listed(unit_arg)
  /\ KeysBeginning(unit_arg) = {}
  /\ unit_ret = None

---------------------------------------------------------------------------
(* Properties of parse_numeric_expression, checked under SpecNum           *)

\* the smaller and the larger of the two endpoints as written
WrittenMin == IF num_src.a <= num_src.b THEN num_src.a ELSE num_src.b
WrittenMax == IF num_src.a <= num_src.b THEN num_src.b ELSE num_src.a

\* C8: a two-sided range with parseable endpoints a and b, in either order,
\* parses to range = (min(a,b), max(a,b)) and value = (min + max) / 2, so
\* that min <= value <= max.
C8_RangeIsSortedEndpoints ==
  (pc = "num_done" /\ num_src.kind = "range") =>
    /\ num_ret.ok
    /\ num_ret.has_range
    /\ num_ret.range = <<RatInt(WrittenMin), RatInt(WrittenMax)>>
    /\ num_ret.value = Rat(WrittenMin + WrittenMax, 2)
    /\ RatLe(num_ret.range[1], num_ret.value)
    /\ RatLe(num_ret.value, num_ret.range[2])

\* C9: a minus sign that leads a number is not a range separator: a range
\* with a negative endpoint keeps the signed endpoints, and a single
\* negative number is that negative value with no range.
C9_LeadingMinusIsSign ==
  pc = "num_done" =>
    /\ (num_src.kind = "range" /\ (num_src.a < 0 \/ num_src.b < 0)) =>
         /\ num_ret.ok
         /\ num_ret.has_range
         /\ num_ret.range = <<RatInt(WrittenMin), RatInt(WrittenMax)>>
    /\ (num_src.kind = "single" /\ num_src.a < 0) =>
         /\ num_ret.ok
         /\ ~num_ret.has_range
         /\ num_ret.value = RatInt(num_src.a)

\* C10: every spelling of m times ten to the n (caret, bare exponent,
\* superscript exponent, letter e) parses, through preprocess_text and
\* parse_numeric_expression, to the single value m * 10^n with no range.
C10_SciSpellingsAgree ==
  (pc = "num_done" /\ num_src.kind = "sci") =>
    /\ num_ret.ok
    /\ ~num_ret.has_range
    /\ num_ret.value = SciValue(num_src.a, num_src.b)


---------------------------------------------------------------------------
(* Unparseable input, context keywords, span assignment                    *)

\* C11: parse_numeric_expression returns None for empty, whitespace-only,
\* qualifier-only and otherwise non-numeric input and for a range of which
\* an endpoint does not parse.
C11_NonNumericGivesNone ==
  (pc = "num_done" /\ num_src.kind = "text") => ~num_ret.ok

\* C12: a field whose schema defines context keywords receives no
\* Measurement from a sentence that contains none of the keywords as a
\* case-insensitive substring, whatever aliases and numbers it contains.
C12_ContextGate ==
  [][\A k \in DOMAIN results :
       (results'[k] # results[k] /\ schema[k].context # <<>>) =>
         \E c \in Range(schema[k].context) : Contains(Lower(sentences[si]), Lower(c))]_vars

\* "for 2 min" is through: the alias of austenitizing_time and a number, no
\* keyword, nothing emitted and nothing logged
C12_Witness ==
  /\ pc = "done"
  /\ src.kind = "phrase"
  /\ src.field = "austenitizing_time"
  /\ src.alias = <<"f","o","r">>
  /\ src.unit_text = <<"m","i","n">>
  /\ \A k \in DOMAIN results : results[k] = <<>>
  /\ warnings = <<>>

\* the spans claimed so far in the sentence are spans of the sentence, no
\* span twice, and no more of them than alias occurrences were processed
ClaimsDistinct ==
  /\ \A i, j \in DOMAIN used_indices : i # j => used_indices[i] # used_indices[j]
  /\ \A i \in DOMAIN used_indices : used_indices[i] \in DOMAIN numeric_spans
  /\ Len(used_indices) <= ai - 1

RECURSIVE SpanBudget(_, _)
\* the sum, over the first n sentences, of the smaller of the number of
\* alias occurrences of field k and the number of numeric spans
SpanBudget(k, n) ==
  IF n = 0 THEN 0
  ELSE SpanBudget(k, n - 1)
         + Min({Len(AliasMatches(sentences[n], schema[k])),
                Len(find_numeric_spans(sentences[n]))})

\* C13 as stated: within one sentence and one field no two alias
\* occurrences claim the same numeric span, and every field receives from a
\* sentence at most min(alias occurrences, numeric spans) Measurements.
C13_OneSpanPerAlias ==
  /\ pc = "alias" => ClaimsDistinct
  /\ pc = "done" =>
       \A k \in DOMAIN results : Len(results[k]) <= SpanBudget(k, Len(sentences))

\* C13, amended: within one sentence and one field no two alias occurrences
\* claim the same numeric span, and every numeric field receives from a
\* sentence at most min(alias occurrences, numeric spans) Measurements; a
\* categorical field claims no span and may receive one Measurement from a
\* sentence without a number.
C13_OneSpanPerNumericAlias ==
  /\ pc = "alias" => ClaimsDistinct
  /\ pc = "done" =>
       \A k \in DOMAIN results :
         IF schema[k].categorical
           THEN Len(results[k]) <= Len(sentences)
           ELSE Len(results[k]) <= SpanBudget(k, Len(sentences))

\* "UTS Rm 5 MPa" is through the alias loop: two alias occurrences of
\* tensile_strength and one number, claimed by the first occurrence only
C13_Witness ==
  /\ pc = "alias"
  /\ Len(alias_matches) = 2
  /\ Len(numeric_spans) = 1
  /\ ai = 3
  /\ used_indices = <<1>>
  /\ Len(results[fi]) = 1

\* the spans no alias occurrence has claimed yet, and those of them that
\* start at or after the end of the alias occurrence at hand
Unclaimed == {idx \in 1..Len(numeric_spans) : idx \notin Range(used_indices)}
UnclaimedAfter == {idx \in Unclaimed : numeric_spans[idx].start >= AliasMatch.end}

\* the distance of a span from the alias occurrence at hand
SpanDistance(idx) ==
  Min({Abs(AliasMatch.start - numeric_spans[idx].start),
       Abs(AliasMatch.end - numeric_spans[idx].end)})

\* C14: for a sentence of any length, select_closest_span returns the
\* nearest unclaimed span that starts at or after the end of the alias
\* whenever one exists, a span before the alias only when none exists, and
\* None only when every span is claimed.
C14_AfterPreferred ==
  [][(pc = "claim" /\ ai <= Len(alias_matches)) =>
       LET idx == IF Len(used_indices') > Len(used_indices)
                    THEN used_indices'[Len(used_indices')] ELSE 0
       IN  /\ UnclaimedAfter # {} =>
                /\ idx \in UnclaimedAfter
                /\ \A o \in UnclaimedAfter : SpanDistance(idx) <= SpanDistance(o)
           /\ (UnclaimedAfter = {} /\ Unclaimed # {}) => idx \in Unclaimed
           /\ (idx = 0) <=> (Unclaimed = {})]_vars

---------------------------------------------------------------------------
(* Ranges, qualifiers, categories                                          *)

\* whether a number without sign starts at offset a of a text: a digit that
\* follows neither a digit nor a decimal point or comma
PlainNumberStarts(s, a) ==
  /\ IsDigit(At(s, a))
  /\ ~IsDigit(At(s, a - 1))
  /\ ~(At(s, a - 1) \in {".", ","} /\ IsDigit(At(s, a - 2)))

\* where the number without sign that starts at offset a ends: digits, and
\* a decimal point or comma with digits
PlainNumberEnd(s, a) ==
  Only({IF At(s, i1) \in {".", ","} /\ IsDigit(At(s, i1 + 1))
          THEN DigitRunEnd(s, i1 + 1) ELSE i1 :
        i1 \in {DigitRunEnd(s, a)}})

\* the pairs of offsets at which two numbers start that only a range
\* separator stands between
SeparatedPairs(s) ==
  {ac \in (0..(Len(s) - 1)) \X (0..(Len(s) - 1)) :
     /\ ac[1] < ac[2]
     /\ PlainNumberStarts(s, ac[1])
     /\ PlainNumberStarts(s, ac[2])
     /\ PlainNumberEnd(s, ac[1]) <= ac[2]
     /\ IsRangeSeparator(Slice(s, PlainNumberEnd(s, ac[1]), ac[2]))}

\* C15: find_numeric_spans reports two numbers of a sentence that only a
\* range separator (-, en dash, em dash, ~, fullwidth tilde, to, the CJK
\* word) stands between, with or without whitespace, as one span that
\* covers both numbers.
C15_RangeIsOneSpan ==
  pc = "alias" =>
    \A ac \in SeparatedPairs(Sentence) :
      \E k \in DOMAIN numeric_spans :
        /\ numeric_spans[k].start <= ac[1]
        /\ numeric_spans[k].end >= PlainNumberEnd(Sentence, ac[2])

\* whether a Measurement records the qualifier glyph its raw text begins
\* with: approximate for ~ and the almost-equal sign, an operator otherwise
RecordsQualifier(m) ==
  /\ m.has_qualifiers
  /\ IF At(m.raw, 0) \in {"~", "u2248"} THEN m.approximate ELSE m.operator # None

\* C16: every emitted numeric Measurement whose matched value text begins
\* with a qualifier glyph (~, almost-equal, <, >, <=, >=) has a qualifiers
\* entry in its metadata that records the glyph, and a finite value that does
\* not carry the glyph; the Measurements of the sentence extractor and of
\* the composition extractor alike.
C16_QualifierRecorded ==
  \A k \in DOMAIN results :
    \A j \in DOMAIN results[k] :
      (results[k][j].value_type = "numeric" /\ At(results[k][j].raw, 0) \in ValueQualifiers)
        => (RecordsQualifier(results[k][j]) /\ results[k][j].value.d # 0)

\* whether some alias of the field occurs in the sentence
AliasOccurs(sentence, meta) ==
  \E a \in DOMAIN meta.aliases : find_alias_matches(sentence, meta.aliases[a]) # <<>>

\* the categories of the field that have a token in the sentence, as
\* positions in the schema's choice order
CategoriesIn(sentence, meta) ==
  {c \in DOMAIN meta.choices :
     \E t \in DOMAIN meta.choices[c].tokens :
       Contains(Lower(sentence), Lower(meta.choices[c].tokens[t]))}

RECURSIVE CategoriesExpected(_, _)
\* the (value, unit) pairs a categorical field is to receive from the first
\* n sentences: for every sentence with an alias and a choice token, the
\* first category in choice order that has a token in it, without unit
CategoriesExpected(k, n) ==
  IF n = 0 THEN <<>>
  ELSE CategoriesExpected(k, n - 1)
         \o (IF AliasOccurs(sentences[n], schema[k]) /\ CategoriesIn(sentences[n], schema[k]) # {}
               THEN << <<schema[k].choices[Min(CategoriesIn(sentences[n], schema[k]))].canonical,
                         None>> >>
               ELSE <<>>)

\* C17: a categorical field receives from every sentence in which one of
\* its aliases and a choice token (case-insensitive) occur exactly one
\* Measurement, with unit None and value the first category in the schema's
\* choice order that has a token in the sentence, and none from any other
\* sentence.
C17_OneCategoryPerSentence ==
  pc = "done" =>
    \A k \in DOMAIN results :
      schema[k].categorical =>
        [j \in DOMAIN results[k] |-> <<results[k][j].category, results[k][j].unit>>]
          = CategoriesExpected(k, Len(sentences))

\* sentences with two aliases and two tokens, with an alias and no token,
\* with a token and no alias: three Measurements from five sentences
C17_Witness ==
  /\ pc = "done"
  /\ Len(sentences) = 5
  /\ \E k \in DOMAIN results :
       /\ schema[k].categorical
       /\ [j \in DOMAIN results[k] |-> results[k][j].category] = <<"water", "water", "air">>
       /\ CategoriesIn(sentences[1], schema[k]) = {1, 2}
       /\ AliasOccurs(sentences[2], schema[k]) /\ CategoriesIn(sentences[2], schema[k]) = {}
       /\ ~AliasOccurs(sentences[4], schema[k]) /\ CategoriesIn(sentences[4], schema[k]) = {1}

---------------------------------------------------------------------------
(* The windows of extract_composition                                      *)

\* whether the value taken lies in the window on the side of the alias
\* occurrence that is being searched
ValueInWindow ==
  IF pc = "after_value"
    THEN /\ alias_matches[ai].end <= value_match.start
         /\ value_match.end <= alias_matches[ai].end + SearchWindow
    ELSE /\ alias_matches[ai].start - SearchWindow <= value_match.start
         /\ value_match.end <= alias_matches[ai].start

\* the texts of one alias and one value, the value without unit or with a
\* percent unit
ValueWritten ==
  /\ src.kind \in {"after", "before"}
  /\ src.unit \in {<<>>, <<"%">>, <<" ","w","t",".","%">>, <<" ","a","t",".","%">>}

\* C18: a value written after an element alias and a value written before
\* it each yield a Measurement of that element with that value, and every
\* Measurement emitted is of a value whose text lies within the 80
\* characters after or the 80 characters before the alias occurrence that
\* triggered it.
C18_BothDirections ==
  [][/\ results' # results => ValueInWindow
     /\ (pc' = "done" /\ ValueWritten) =>
          \E j \in DOMAIN results'[src.index] : results'[src.index][j].raw = src.value]_vars

---------------------------------------------------------------------------
(* Merging the passes                                                      *)

RECURSIVE GroupsConcat(_, _, _)
\* the lists of field k of the first g groups, one after the other
GroupsConcat(groups, k, g) ==
  IF g = 0 THEN <<>> ELSE GroupsConcat(groups, k, g - 1) \o groups[g][k]

\* whether two Measurements agree in field, value to six decimals, unit,
\* range to six decimals and raw text
SameKey(a, b) ==
  /\ a.field = b.field
  /\ a.value_type = b.value_type
  /\ IF a.value_type = "numeric" THEN Round6(a.value) = Round6(b.value)
     ELSE a.category = b.category
  /\ a.unit = b.unit
  /\ a.has_range = b.has_range
  /\ a.has_range => /\ Round6(a.range[1]) = Round6(b.range[1])
                    /\ Round6(a.range[2]) = Round6(b.range[2])
  /\ a.raw = b.raw

\* the positions of a list whose entry has the key of no earlier entry
FirstOfKey(list) ==
  {i \in DOMAIN list : \A j \in 1..(i - 1) : ~SameKey(list[j], list[i])}

\* the entries of a list at the given positions, in the order of the list
EntriesAt(list, kept) ==
  [n \in 1..Cardinality(kept) |->
     list[CHOOSE i \in kept : Cardinality({j \in kept : j < i}) = n - 1]]

\* C19: for every field with a Measurement in some group,
\* merge_measurement_groups returns the lists of the field, one group after
\* the other, without the entries whose key (field, value to six decimals,
\* unit, range to six decimals, raw) an earlier entry has: the earliest entry
\* of every key, metadata and all, in the order of the input.
C19_MergeKeepsFirstOfKey ==
  pc = "merged" =>
    \A k \in DOMAIN results :
      results[k] = EntriesAt(GroupsConcat(src.groups, k, Len(src.groups)),
                             FirstOfKey(GroupsConcat(src.groups, k, Len(src.groups))))

\* both passes report the cooling rate, the second pass with a value that
\* differs beyond the sixth decimal, and another Measurement as well: the
\* entry of the first pass is the one kept
C19_Witness ==
  /\ pc = "merged"
  /\ \E k \in DOMAIN results :
       /\ Len(src.groups[1][k]) = 1
       /\ Len(src.groups[2][k]) = 2
       /\ Len(results[k]) = 2
       /\ results[k][1] = src.groups[1][k][1]
       /\ results[k][1].method = "rule_regex"
       /\ src.groups[2][k][1].method = "regex_sentences"
       /\ src.groups[2][k][1].value # results[k][1].value
       /\ SameKey(src.groups[2][k][1], results[k][1])
       /\ results[k][2] = src.groups[2][k][2]

---------------------------------------------------------------------------
(* The method label of the NLP pass                                        *)

\* C20: the method label of an NLPExtractor is one of nlp_dependency,
\* heuristic_sentencizer and regex_sentences from its construction on and
\* never changes, and every Measurement of a call of extract carries it.
C20_MethodFixed ==
  [][/\ pc # "construct" => method_label' = method_label
     /\ method_label' \in {"nlp_dependency", "heuristic_sentencizer", "regex_sentences"}
     /\ \A k \in DOMAIN results' :
          \A j \in DOMAIN results'[k] : results'[k][j].method = method_label']_vars

\* a call of extract on an extractor built without the spaCy model has
\* returned Measurements of the mechanical properties
C20_Witness ==
  /\ pc = "ready"
  /\ method_label = "heuristic_sentencizer"
  /\ src.text # <<>>
  /\ \E k \in DOMAIN results : results[k] # <<>>

---------------------------------------------------------------------------
(* Metadata                                                                *)

\* every Measurement held in results
Emitted == UNION {Range(results[k]) : k \in DOMAIN results}

\* C21: every Measurement a pass emits (sentence extractor, categorical
\* branch, composition extractor, NLP fallback) has the metadata keys method,
\* sentence and trigger, and a Measurement of the rule-based pass has the
\* method rule_regex.
C21_MetadataKeys ==
  \A m \in Emitted :
    /\ {"method", "sentence", "trigger"} \subseteq DOMAIN m
    /\ src.kind # "nlp" => m.method = "rule_regex"

\* the rule-based pass has emitted a categorical Measurement, with the alias
\* that triggered it and the sentence it stands in
C21_Witness ==
  /\ src.kind = "passage"
  /\ \E m \in Emitted :
       /\ m.value_type = "categorical"
       /\ m.method = "rule_regex"
       /\ m.trigger # <<>>
       /\ m.sentence # <<>>

\* the Measurements of a section of a result
SectionMeasurements(section) == UNION {Range(section.lists[k]) : k \in DOMAIN section.lists}

\* the Measurements of a result of extract_steel_data_from_text
DataMeasurements(data) == UNION {SectionMeasurements(data[name]) : name \in SectionNames}

C23_BadDocumentSkipped ==
  src.kind = "batch" =>
    /\ pc # "raised"
    /\ pc = "returned" => Len(src.outcomes) = src.files
    /\ \A i \in DOMAIN src.dataset :
         LET outcome == src.outcomes[src.dataset[i].file]
         IN  outcome.kind = "text" /\ outcome.raw # <<>>
    /\ \A i \in DOMAIN src.calls :
         src.calls[i].text = <<>> =>
           /\ DOMAIN src.calls[i].result = SectionNames
           /\ DataMeasurements(src.calls[i].result) = {}

\* the directory loop has returned after a file that raised and a file
\* whose text is empty after normalisation
C23_Witness ==
  /\ src.kind = "batch"
  /\ pc = "returned"
  /\ Len(src.outcomes) = 2
  /\ src.outcomes[1].kind = "raises"
  /\ src.outcomes[2].kind = "text"
  /\ Len(src.calls) = 1
  /\ src.calls[1].text = <<>>

\* the strategies of extract_tables_from_pdf in the order of its statements
Strategies == <<"camelot-lattice", "camelot-stream", "tabula", "ocr">>

RECURSIVE ReturnedFrames(_, _)
\* the frames returned by the calls of a strategy that did not raise
ReturnedFrames(outcomes, i) ==
  IF i > Len(outcomes) THEN 0
  ELSE (IF outcomes[i].raises THEN 0 ELSE outcomes[i].frames) + ReturnedFrames(outcomes, i + 1)

\* a call of the strategy raised
SomeCallRaised(r) == \E i \in DOMAIN r.outcomes : r.outcomes[i].raises

\* the strategies run so far are the first of the fixed order, each after
\* strategies that found no table, and the tables are those of the first
\* strategy that found one
InFixedOrder ==
  /\ pc # "raised"
  /\ Len(src.ran) <= Len(Strategies)
  /\ \A i \in DOMAIN src.ran : src.ran[i].strategy = Strategies[i]
  /\ \A i, j \in DOMAIN src.ran : i < j => src.ran[i].found = 0
  /\ \A t \in Range(results) :
       \E i \in DOMAIN src.ran :
         /\ src.ran[i].found > 0
         /\ t.extraction_method = src.ran[i].strategy

\* C24 as stated: extract_tables_from_pdf runs camelot-lattice,
\* camelot-stream, tabula and OCR in this order, a later strategy only if
\* the earlier ones found no table; a strategy whose dependency is missing
\* or one of whose calls raised contributes no table and does not raise;
\* all tables carry the method of the first strategy that found a table
C24_FallbackChain ==
  src.kind = "tables" =>
    /\ InFixedOrder
    /\ \A i \in DOMAIN src.ran :
         (src.ran[i].missing \/ SomeCallRaised(src.ran[i])) => src.ran[i].found = 0

\* C24 amended: as stated, but it is the call that raises that contributes
\* no table: tabula and OCR call their library once for each page, and the
\* tables of the pages whose call returned are kept
C24_FallbackChainPerCall ==
  src.kind = "tables" =>
    /\ InFixedOrder
    /\ \A i \in DOMAIN src.ran :
         /\ src.ran[i].missing => src.ran[i].found = 0
         /\ src.ran[i].found <= ReturnedFrames(src.ran[i].outcomes, 1)
         /\ Len(src.ran[i].outcomes) = 1 /\ SomeCallRaised(src.ran[i]) => src.ran[i].found = 0

\* camelot is missing, the tabula call of one page raised and that of the
\* other page returned a table, which is the result
C24_Witness ==
  /\ src.kind = "tables"
  /\ pc = "returned"
  /\ Len(src.ran) = 3
  /\ src.ran[1].missing
  /\ SomeCallRaised(src.ran[3])
  /\ src.ran[3].found > 0
  /\ \A t \in Range(results) : t.extraction_method = "tabula"

\* the sum of two rationals over their least common denominator
SumOverCommon(a, b) ==
  LET d == (a.d \div GCD(a.d, b.d)) * b.d
  IN  Rat(a.n * (d \div a.d) + b.n * (d \div b.d), d)

\* the value of a Measurement lies in its range and is the midpoint of it
MidpointOfRange(m) ==
  /\ RatLe(m.range[1], m.value)
  /\ RatLe(m.value, m.range[2])
  /\ RatMul(m.value, RatInt(2)) = SumOverCommon(m.range[1], m.range[2])

NlpAddsNothing(rule, nlp, merged) ==
  /\ \A k \in DOMAIN nlp : \A m \in Range(nlp[k]) :
       \E r \in Range(rule[k]) : measurement_key(m) = measurement_key(r)
  /\ merged = merge_measurement_groups(<<rule>>)

\* C26: with the method regex_sentences every Measurement of the NLP pass
\* has the dedup key of a Measurement of the rule pass over the same text,
\* and the merged heat_treatment and mechanical_properties hold nothing
\* beyond the de-duplicated Measurements of the rule pass
C26_RegexNlpAddsNothing ==
  src.kind = "batch" /\ MethodOf(src.environment) = "regex_sentences" =>
    \A i \in DOMAIN src.calls :
      LET call == src.calls[i]
      IN  /\ NlpAddsNothing(call.paper["heat_rule"], call.paper["heat_nlp"],
                            call.result.heat_treatment.lists)
          /\ NlpAddsNothing(call.paper["properties_rule"], call.paper["properties_nlp"],
                            call.result.mechanical_properties.lists)

\* a text extracted without spaCy whose NLP pass returned Measurements
\* labelled regex_sentences
C26_Witness ==
  /\ src.kind = "batch"
  /\ MethodOf(src.environment) = "regex_sentences"
  /\ \E i \in DOMAIN src.calls :
       /\ \E k \in DOMAIN src.calls[i].paper["properties_nlp"] :
            \E m \in Range(src.calls[i].paper["properties_nlp"][k]) :
              m.method = "regex_sentences"
       /\ \E k \in DOMAIN src.calls[i].paper["heat_nlp"] :
            src.calls[i].paper["heat_nlp"][k] # <<>>

\* the numeric spans of a sentence that are written as the text
SpansWritten(sentence, raw) ==
  Only({{i \in DOMAIN spans : Strip(spans[i].raw) = raw} :
          spans \in {find_numeric_spans(sentence)}})

\* C27: within one sentence a numeric span gives a Measurement to at most
\* one field of the schema: two numeric Measurements of different fields
\* from the same sentence with the same number text come from different
\* spans, so the sentence writes that text in more than one span
C27_OneFieldPerSpan ==
  pc = "done" /\ src.kind \in {"phrase", "passage"} =>
    \A k1, k2 \in DOMAIN results :
      k1 # k2 =>
        \A m1 \in Range(results[k1]), m2 \in Range(results[k2]) :
          (/\ m1.value_type = "numeric"
           /\ m2.value_type = "numeric"
           /\ m1.sentence = m2.sentence
           /\ m1.raw = m2.raw)
            => Cardinality(SpansWritten(m1.sentence, m1.raw)) > 1

\* the span select_closest_span chooses for the alias occurrence at hand
SelectedSpan ==
  select_closest_span(AliasMatch.start, AliasMatch.end, numeric_spans, used_indices)

\* the span is discarded: its number does not parse, or its unit is not
\* recognized, not allowed or not convertible
Discarded(idx) ==
  LET numeric_span == numeric_spans[idx]
      parsed == parse_numeric_expression(numeric_span.raw)
      unit == detect_unit_for_span(Sentence, numeric_span.start, numeric_span.end, Meta)
  IN  \/ ~parsed.ok
      \/ ~normalize_measurement_values(parsed, unit.canonical, unit.raw_unit, Meta).ok

\* C28: when the span selected for an alias occurrence is discarded, the
\* span stays claimed: the occurrence emits nothing and is not tried
\* again, and no later occurrence of the field in the sentence selects the
\* span
C28_DiscardedSpanStaysClaimed ==
  [][(/\ pc = "alias"
      /\ src.kind \in {"phrase", "passage"}
      /\ ai <= Len(alias_matches)
      /\ SelectedSpan # 0
      /\ Discarded(SelectedSpan))
       => /\ results' = results
          /\ ai' = ai + 1
          /\ used_indices' = Append(used_indices, SelectedSpan)
          /\ \A j \in (ai + 1)..Len(alias_matches) :
               select_closest_span(alias_matches[j].start, alias_matches[j].end,
                                   numeric_spans, used_indices') # SelectedSpan]_vars

\* a span was claimed and discarded, and a later occurrence of the field
\* is still to be visited
C28_Witness ==
  /\ pc = "alias"
  /\ src.kind \in {"phrase", "passage"}
  /\ ai = 2
  /\ Len(alias_matches) >= 2
  /\ used_indices = <<1>>
  /\ results[fi] = <<>>
  /\ warnings # <<>>

\* the schema of a section of the result
SectionSchema(name) ==
  CASE name = "composition" -> COMPOSITION_FIELDS
    [] name = "heat_treatment" -> HEAT_TREATMENT_FIELDS
    [] name = "mechanical_properties" -> MECHANICAL_PROPERTY_FIELDS
    [] name = "microstructure" -> MICROSTRUCTURE_FIELDS

\* C29: in the result of extract_steel_data_from_text every section has a
\* key for every field of its schema, with an empty list for a field for
\* which nothing was found
C29_EveryFieldHasKey ==
  src.kind = "batch" =>
    \A i \in DOMAIN src.calls : \A name \in SectionNames :
      src.calls[i].result[name].keys = DOMAIN SectionSchema(name)

\* C30: process_papers_from_directory puts a paper in the dataset only if
\* a Measurement was extracted for it in some section, and logs the "no
\* data extracted" warning for a paper that was processed without error
\* and without a Measurement
C30_DatasetHasMeasurements ==
  src.kind = "batch" =>
    /\ \A i \in DOMAIN src.dataset : DataMeasurements(src.dataset[i].data) # {}
    /\ (/\ pc = "file"
        /\ src.calls # <<>>
        /\ src.outcomes # <<>>
        /\ src.outcomes[Len(src.outcomes)].kind = "text"
        /\ src.outcomes[Len(src.outcomes)].raw # <<>>
        /\ DataMeasurements(src.calls[Len(src.calls)].result) = {})
         => \E w \in Range(warnings) : w.kind = "no_data"
=============================================================================
